---- MODULE Spec2Model ----
(***************************************************************************)
(* Verification model of GLTFWebViewer: the variant configuration engine   *)
(* (class Configurator over a FieldManager), the viewer's glTF load        *)
(* pipeline and engine application (class PlayCanvasViewer), the extension *)
(* parsers and the mesh translation (translateMesh).  Each part has its    *)
(* own specification and leaves the variables of the other parts at rest.  *)
(*                                                                         *)
(* JavaScript arrays are modelled as TLA+ sequences: the element a[i] of   *)
(* a JavaScript array is element i + 1 of the sequence.  A JavaScript      *)
(* value that may be undefined is modelled as a sequence of length at most *)
(* one: << >> is undefined and << x >> is the defined value x.             *)
(***************************************************************************)
EXTENDS Integers, Sequences, FiniteSets, TLC

VARIABLES
  manager,          \* Configurator.manager: the FieldManager given to the constructor
  _configuration,   \* Configurator._configuration: number[]
  _callbacks,       \* Configurator._callbacks: OnValueChangeCallback[][]
  last,             \* the most recent call on the Configurator and how it ended
  calls,            \* the subscriber invocations made by the most recent call, in order
  pre               \* _configuration and _callbacks as the most recent call found them

VARIABLES
  _gltf,               \* PlayCanvasViewer._gltf: the container held, if any
  _activeGltfScene,    \* PlayCanvasViewer._activeGltfScene: the container whose scene is active
  _gltfLoaded,         \* PlayCanvasViewer._gltfLoaded
  _variantSetManager,  \* PlayCanvasViewer._variantSetManager: the container it was built from
  _hotspots,           \* PlayCanvasViewer._hotspots: the container they belong to
  _backdrops,          \* PlayCanvasViewer._backdrops: the container they belong to
  _cameraPreviews,     \* PlayCanvasViewer._cameraPreviews: the container they were taken of
  rootChildren,        \* the containers whose scene root is a child of app.root
  unloaded,            \* the containers passed to loader.unload
  loads,               \* the loadGltf calls: where each stands
  event                \* the most recent step of the viewer

VARIABLES
  registry,           \* the extension registry: its node table and its scene table
  registration,       \* each extension parser: never registered, registered, or unregistered
  document,           \* the glTF document being parsed: the extensions its nodes and scenes carry
  parse,              \* where the parse of the document stands
  invoked             \* the extension callbacks invoked for the document, in order

VARIABLES
  applications,        \* the engine applications created so far: created, started or destroyed
  currentApplication,  \* the application pc.Application.getApplication() returns, if any
  viewers,             \* the viewers constructed so far: alive or destroyed
  engineCalls          \* the calls the most recent step made on the engine, in order

VARIABLES
  translate,       \* the translateMesh call: where it stands and how it ended
  primitive,       \* the primitive most recently handled by translateMesh
  sources,         \* where each attribute array, and the index array, of that primitive came from
  accessorReads,   \* the accessors whose data was read for that primitive
  backendObjects,  \* the decoder backend objects allocated for that primitive, and those not destroyed
  consoleLog,      \* what handling that primitive wrote to the console
  meshes           \* translateMesh's meshes array: the primitives whose mesh was pushed

VARIABLES
  buildInput,  \* the step of the geometry builder most recently run, and what it was given
  buildOutput  \* what that step produced

VARIABLES
  materialData,  \* the material description handed to translateMaterial
  material  \* the translated material: << >> before the call, << m >> after it

VARIABLES
  walk,  \* the forEach of _onValueChange in progress: its field, value, next index and length
  seen,  \* what getValue of the field returned inside each subscriber invoked by the walk, in order
  unsubscribed  \* the subscribers unregistered from inside a callback of the walk

VARIABLES
  sceneCameras,  \* the camera list of the active glTF scene, << >> without an active scene
  _activeCamera,  \* PlayCanvasViewer._activeCamera: the id of the camera, if any
  previewing,  \* _initCameraPreviews: the index of the camera whose frame is awaited and its prevEnabled
  cameraEvent  \* the most recent call on the cameras and the state it found

VARIABLES
  _scene,  \* PlayCanvasViewer._scene: the id of the loaded scene, if any
  _sceneLoaded,  \* PlayCanvasViewer._sceneLoaded
  backdropsActive,  \* whether PlayCanvasViewer._backdrops is set when loadScene looks at it
  sceneLoads,  \* the scene loads issued to the engine, by id: unused, pending, resolved or rejected
  destroyedScenes,  \* the ids of the scenes that were destroyed
  sceneEvent  \* the most recent call or callback on the scene and the state it found

VARIABLES
  _variantSets,  \* VariantSetExtensionParser._variantSets: the recorded { scene, data } entries
  parserHotspots,  \* InteractionHotspotExtensionParser._hotspots: the recorded { node, data } entries
  parserEvent  \* the most recent callback or query on the parsers, its inputs and what it found or returned

configuratorVars == << manager, _configuration, _callbacks, last, calls, pre >>

gltfViewerVars ==
  << _gltf, _activeGltfScene, _gltfLoaded, _variantSetManager, _hotspots, _backdrops,
     _cameraPreviews, rootChildren, unloaded, loads, event >>

extensionVars == << registry, registration, document, parse, invoked >>

applicationVars == << applications, currentApplication, viewers, engineCalls >>

meshVars ==
  << translate, primitive, sources, accessorReads, backendObjects, consoleLog, meshes >>

builderVars == << buildInput, buildOutput >>

materialVars == << materialData, material >>

walkVars == << walk, seen, unsubscribed >>

cameraVars == << sceneCameras, _activeCamera, previewing, cameraEvent >>

sceneVars == << _scene, _sceneLoaded, backdropsActive, sceneLoads, destroyedScenes, sceneEvent >>

parserVars == << _variantSets, parserHotspots, parserEvent >>

vars == << configuratorVars, gltfViewerVars, extensionVars, applicationVars, meshVars, builderVars, materialVars, walkVars, cameraVars, sceneVars, parserVars >>

\* what a step of one part leaves alone: the variables of the other parts
notConfiguratorVars == << gltfViewerVars, extensionVars, applicationVars, meshVars, builderVars, materialVars, walkVars, cameraVars, sceneVars, parserVars >>
notGltfViewerVars == << configuratorVars, extensionVars, applicationVars, meshVars, builderVars, materialVars, walkVars, cameraVars, sceneVars, parserVars >>
notExtensionVars == << configuratorVars, gltfViewerVars, applicationVars, meshVars, builderVars, materialVars, walkVars, cameraVars, sceneVars, parserVars >>
notApplicationVars == << configuratorVars, gltfViewerVars, extensionVars, meshVars, builderVars, materialVars, walkVars, cameraVars, sceneVars, parserVars >>
notMeshVars == << configuratorVars, gltfViewerVars, extensionVars, applicationVars, builderVars, materialVars, walkVars, cameraVars, sceneVars, parserVars >>
notBuilderVars == << configuratorVars, gltfViewerVars, extensionVars, applicationVars, meshVars, materialVars, walkVars, cameraVars, sceneVars, parserVars >>
notMaterialVars == << configuratorVars, gltfViewerVars, extensionVars, applicationVars, meshVars, builderVars, walkVars, cameraVars, sceneVars, parserVars >>
notWalkVars == << configuratorVars, gltfViewerVars, extensionVars, applicationVars, meshVars, builderVars, materialVars, cameraVars, sceneVars, parserVars >>
notConfiguratorNorWalkVars == << gltfViewerVars, extensionVars, applicationVars, meshVars, builderVars, materialVars, cameraVars, sceneVars, parserVars >>
notCameraVars == << configuratorVars, gltfViewerVars, extensionVars, applicationVars, meshVars, builderVars, materialVars, walkVars, sceneVars, parserVars >>
notSceneVars == << configuratorVars, gltfViewerVars, extensionVars, applicationVars, meshVars, builderVars, materialVars, walkVars, cameraVars, parserVars >>
notParserVars == << configuratorVars, gltfViewerVars, extensionVars, applicationVars, meshVars, builderVars, materialVars, walkVars, cameraVars, sceneVars >>

(***************************************************************************)
(* Bounds of the model.                                                    *)
(***************************************************************************)
\* the largest field id passed to an operation (field ids run from -1)
MaxFieldId == 2
\* the largest value id passed to setValue (value ids run from -1)
MaxValueId == 3
\* the largest number of subscriptions held by one Configurator
MaxSubs == 3

FieldIdArgs == -1 .. MaxFieldId
ValueIdArgs == -1 .. MaxValueId

\* The subscriber functions handed to onValueChange / offVariantChange.  A
\* subscriber records its invocation and does not call back into the
\* Configurator while it is being notified.
Callbacks == { "cbA", "cbB" }

\* the largest number of loadGltf calls made on one viewer
MaxLoads == 2
\* the largest number of cameras a glTF scene brings
MaxSceneCameras == 1

LoadIds == 1 .. MaxLoads

\* no viewer has been constructed
NoGltfViewer ==
  /\ _gltf = << >>
  /\ _activeGltfScene = << >>
  /\ _gltfLoaded = FALSE
  /\ _variantSetManager = << >>
  /\ _hotspots = << >>
  /\ _backdrops = << >>
  /\ _cameraPreviews = << >>
  /\ rootChildren = { }
  /\ unloaded = { }
  /\ loads = << >>
  /\ event = [ op |-> "none" ]

\* the largest number of nodes and of scenes of a glTF document
MaxNodes == 2
MaxScenes == 1

\* no extension registry exists
NoExtensions ==
  /\ registry = [ node |-> { }, scene |-> { } ]
  /\ registration = [ p \in { "InteractionHotspot", "VariantSet" } |-> "never" ]
  /\ document = [ nodeCount |-> 0, sceneCount |-> 0, nodes |-> << >>, scenes |-> << >> ]
  /\ parse = [ stage |-> "none", index |-> 0 ]
  /\ invoked = << >>

\* the largest number of viewers constructed on one page
MaxViewers == 4

ViewerIds == 1 .. MaxViewers

\* no viewer was ever constructed: the engine has no application
NoApplications ==
  /\ applications = [ a \in ViewerIds |-> "none" ]
  /\ currentApplication = << >>
  /\ viewers = [ v \in ViewerIds |-> "none" ]
  /\ engineCalls = << >>

\* the largest number of primitives of a mesh
MaxPrimitives == 2
\* translateMesh is not running
NoMesh ==
  /\ translate = [ pc |-> "none", index |-> 0, count |-> 0, error |-> "none" ]
  /\ primitive = << >>
  /\ sources = << >>
  /\ accessorReads = { }
  /\ backendObjects = [ allocated |-> { }, live |-> { } ]
  /\ consoleLog = << >>
  /\ meshes = << >>

\* how far from the limit of 16-bit indices the point and vertex counts range
CountSpread == 2
\* the largest number of faces of a decoded mesh
MaxFaces == 2
\* the largest accessor index a morph target names
MaxAccessorIndex == 1
\* the largest number of vertices of a primitive whose vertex buffer is built
MaxVertices == 2

\* the geometry builder has not run
NoBuilder ==
  /\ buildInput = [ op |-> "none" ]
  /\ buildOutput = [ op |-> "none" ]

\* no material is being translated
NoMaterial ==
  /\ materialData = << >>
  /\ material = << >>

\* no setValue is notifying its subscribers
NoWalk ==
  /\ walk = [ active |-> FALSE, fieldId |-> 0, valueId |-> 0, k |-> 0, len |-> 0 ]
  /\ seen = << >>
  /\ unsubscribed = {}

\* the largest number of cameras of a glTF scene whose flags are followed
MaxCameras == 2
\* no camera list is looked at
NoCamera ==
  /\ sceneCameras = << >>
  /\ _activeCamera = << >>
  /\ previewing = [ state |-> "idle", at |-> 0, prevEnabled |-> FALSE ]
  /\ cameraEvent = [ op |-> "none" ]

\* the largest number of scene loads the engine is asked for
MaxSceneLoads == 2
\* no scene is loaded
NoScene ==
  /\ _scene = << >>
  /\ _sceneLoaded = FALSE
  /\ backdropsActive = FALSE
  /\ sceneLoads = << >>
  /\ destroyedScenes = { }
  /\ sceneEvent = [ op |-> "none" ]

\* the largest number of entries the two parsers record together
MaxRecorded == 2
\* the parsers have recorded nothing
NoParser ==
  /\ _variantSets = << >>
  /\ parserHotspots = << >>
  /\ parserEvent = [ op |-> "none" ]

(***************************************************************************)
(* JavaScript values.                                                      *)
(***************************************************************************)
Undefined == << >>

Some(x) == << x >>

\* a[i] of a JavaScript array: the element, or undefined outside 0 .. length-1
At(a, i) == IF i + 1 \in DOMAIN a THEN Some(a[i + 1]) ELSE Undefined

\* a.lastIndexOf(x): the last index holding x, or -1
IndexOf_Last(a, x) ==
  IF \E i \in DOMAIN a : a[i] = x
  THEN (CHOOSE i \in DOMAIN a : a[i] = x /\ \A j \in (i + 1) .. Len(a) : a[j] # x) - 1
  ELSE -1

\* a.indexOf(x): the first index holding x, or -1
IndexOf(a, x) ==
  IF \E i \in DOMAIN a : a[i] = x
  THEN (CHOOSE i \in DOMAIN a : a[i] = x /\ \A j \in 1 .. (i - 1) : a[j] # x) - 1
  ELSE -1

\* a.splice(index, 1) for 0 <= index < length: a without the element at index
Splice1(a, index) ==
  [ i \in 1 .. (Len(a) - 1) |-> IF i < index + 1 THEN a[i] ELSE a[i + 1] ]

(***************************************************************************)
(* FieldManager: the field domain.  A field is an ordered list of values,  *)
(* a value's id is its index in the list, and defaultValue is the id of    *)
(* the value that carries the default-selection flag.                      *)
(***************************************************************************)
Managers ==
  { [ fields |-> << [ values |-> << "a0", "a1", "a2" >>, defaultValue |-> 0 ],
                    [ values |-> << "b0", "b1" >>, defaultValue |-> 0 ] >> ],
    [ fields |-> << [ values |-> << "a0", "a1" >>, defaultValue |-> 1 ],
                    [ values |-> << "b0", "b1", "b2" >>, defaultValue |-> 2 ] >> ],
    [ fields |-> << [ values |-> << "a0" >>, defaultValue |-> 0 ] >> ],
    [ fields |-> << >> ] }

\* manager.getValues(fieldId): the field's value list, or undefined
FieldManager_getValues(m, fieldId) ==
  IF fieldId + 1 \in DOMAIN m.fields
  THEN Some(m.fields[fieldId + 1].values)
  ELSE Undefined

\* manager.getValue(fieldId, valueId): the value, or undefined
FieldManager_getValue(m, fieldId, valueId) ==
  IF fieldId + 1 \in DOMAIN m.fields
  THEN At(m.fields[fieldId + 1].values, valueId)
  ELSE Undefined

(***************************************************************************)
(* Configurator.                                                           *)
(***************************************************************************)
\* the state a call starts from
Snapshot == [ configuration |-> _configuration, callbacks |-> _callbacks ]

\* the constructor with every slot at value id 0 instead of the field's default
Constructor_ZeroDefault(m) ==
  /\ manager = m
  /\ _configuration = [ i \in 1 .. Len(m.fields) |-> 0 ]
  /\ _callbacks = [ i \in 1 .. Len(m.fields) |-> << >> ]
  /\ last = [ op |-> "constructor", error |-> "none" ]
  /\ calls = << >>
  /\ pre = Snapshot

\* constructor(manager)
Constructor(m) ==
  /\ manager = m
  /\ _configuration = [ i \in 1 .. Len(m.fields) |-> m.fields[i].defaultValue ]
  /\ _callbacks = [ i \in 1 .. Len(m.fields) |-> << >> ]
  /\ last = [ op |-> "constructor", error |-> "none" ]
  /\ calls = << >>
  /\ pre = Snapshot

\* get configuration()
configuration == _configuration

\* a thrown Error: the call ends with the message and changes nothing
Throw(call, message) ==
  /\ last' = [ call EXCEPT !.error = message ]
  /\ calls' = << >>
  /\ pre' = Snapshot
  /\ UNCHANGED << manager, _configuration, _callbacks >>

\* getDomain(fieldId)
getDomain(fieldId) ==
  LET values == FieldManager_getValues(manager, fieldId)
  IN  IF values = Undefined
      THEN << >>
      ELSE [ i \in 1 .. Len(values[1]) |-> i - 1 ]

\* getValue falling back to value id 0 for a slot that does not exist
getValue_DefaultZero(fieldId) ==
  IF At(configuration, fieldId) = Undefined THEN Some(0) ELSE At(configuration, fieldId)

\* getValue(fieldId)
getValue(fieldId) == At(configuration, fieldId)

\* callback(valueId) of a subscriber registered on fieldId: the invocation it records
Invoke(fieldId, callback, valueId) ==
  [ field |-> fieldId, callback |-> callback, valueId |-> valueId ]

\* _onValueChange walking the subscriber list from its end
_onValueChange_Reversed(fieldId, valueId) ==
  LET callbacks == _callbacks[fieldId + 1]
      n == Len(callbacks)
  IN  [ i \in 1 .. n |-> Invoke(fieldId, callbacks[n + 1 - i], valueId) ]

\* _onValueChange notifying the subscribers of every field
_onValueChange_AllFields(fieldId, valueId) ==
  LET RECURSIVE Upto(_)
      Upto(n) ==
        IF n = 0
        THEN << >>
        ELSE Upto(n - 1) \o
             [ i \in 1 .. Len(_callbacks[n]) |-> Invoke(n - 1, _callbacks[n][i], valueId) ]
  IN  Upto(Len(_callbacks))

\* _onValueChange(fieldId, valueId): callbacks.forEach(callback => callback(valueId)),
\* the invocations made, in order
_onValueChange(fieldId, valueId) ==
  LET callbacks == _callbacks[fieldId + 1]
  IN  [ i \in 1 .. Len(callbacks) |-> Invoke(fieldId, callbacks[i], valueId) ]

\* setValue(fieldId, valueId) once both checks have passed
Store(fieldId, valueId) ==
  /\ _configuration' = [ _configuration EXCEPT ![fieldId + 1] = valueId ]
  /\ calls' = _onValueChange(fieldId, valueId)
  /\ pre' = Snapshot
  /\ last' = [ op |-> "setValue", fieldId |-> fieldId, valueId |-> valueId, error |-> "none" ]
  /\ UNCHANGED << manager, _callbacks >>

\* setValue without the check of the value id
setValue_NoValueCheck(fieldId, valueId) ==
  LET call == [ op |-> "setValue", fieldId |-> fieldId, valueId |-> valueId, error |-> "none" ]
  IN  IF At(_configuration, fieldId) = Undefined
      THEN Throw(call, "Invalid field")
      ELSE Store(fieldId, valueId)

\* setValue without the check of the field id
setValue_NoFieldCheck(fieldId, valueId) ==
  LET call == [ op |-> "setValue", fieldId |-> fieldId, valueId |-> valueId, error |-> "none" ]
  IN  IF FieldManager_getValue(manager, fieldId, valueId) = Undefined
      THEN Throw(call, "Invalid value")
      ELSE Store(fieldId, valueId)

\* setValue returning early when the value id is already the current one
setValue_SkipUnchanged(fieldId, valueId) ==
  LET call == [ op |-> "setValue", fieldId |-> fieldId, valueId |-> valueId, error |-> "none" ]
  IN  IF At(_configuration, fieldId) = Undefined
      THEN Throw(call, "Invalid field")
      ELSE IF FieldManager_getValue(manager, fieldId, valueId) = Undefined
      THEN Throw(call, "Invalid value")
      ELSE IF At(_configuration, fieldId) = Some(valueId)
      THEN /\ last' = call
           /\ calls' = << >>
           /\ pre' = Snapshot
           /\ UNCHANGED << manager, _configuration, _callbacks >>
      ELSE Store(fieldId, valueId)

\* setValue writing the slot before it checks the value id
setValue_StoreBeforeCheck(fieldId, valueId) ==
  LET call == [ op |-> "setValue", fieldId |-> fieldId, valueId |-> valueId, error |-> "none" ]
  IN  IF At(_configuration, fieldId) = Undefined
      THEN Throw(call, "Invalid field")
      ELSE IF FieldManager_getValue(manager, fieldId, valueId) = Undefined
      THEN /\ _configuration' = [ _configuration EXCEPT ![fieldId + 1] = valueId ]
           /\ last' = [ call EXCEPT !.error = "Invalid value" ]
           /\ calls' = << >>
           /\ pre' = Snapshot
           /\ UNCHANGED << manager, _callbacks >>
      ELSE Store(fieldId, valueId)

\* setValue(fieldId, valueId)
setValue(fieldId, valueId) ==
  LET call == [ op |-> "setValue", fieldId |-> fieldId, valueId |-> valueId, error |-> "none" ]
  IN  IF At(_configuration, fieldId) = Undefined
      THEN Throw(call, "Invalid field")
      ELSE IF FieldManager_getValue(manager, fieldId, valueId) = Undefined
      THEN Throw(call, "Invalid value")
      ELSE Store(fieldId, valueId)

\* the number of subscriptions held, over all fields
Subscriptions ==
  LET RECURSIVE Sum(_)
      Sum(n) == IF n = 0 THEN 0 ELSE Len(_callbacks[n]) + Sum(n - 1)
  IN  Sum(Len(_callbacks))

\* onValueChange(field, callback) once the check has passed: callbacks.push(callback)
Push(field, callback) ==
  /\ Subscriptions < MaxSubs
  /\ _callbacks' = [ _callbacks EXCEPT ![field + 1] = Append(@, callback) ]
  /\ calls' = << >>
  /\ pre' = Snapshot
  /\ last' = [ op |-> "onValueChange", fieldId |-> field, callback |-> callback, error |-> "none" ]
  /\ UNCHANGED << manager, _configuration >>

\* onValueChange without the check of the field: push on undefined is a TypeError
onValueChange_NoFieldCheck(field, callback) ==
  LET call == [ op |-> "onValueChange", fieldId |-> field, callback |-> callback, error |-> "none" ]
  IN  IF At(_callbacks, field) = Undefined
      THEN Throw(call, "TypeError")
      ELSE Push(field, callback)

\* onValueChange(field, callback)
onValueChange(field, callback) ==
  LET call == [ op |-> "onValueChange", fieldId |-> field, callback |-> callback, error |-> "none" ]
  IN  IF At(_callbacks, field) = Undefined
      THEN Throw(call, "Invalid variant set")
      ELSE Push(field, callback)

\* offVariantChange without the index === -1 return: splice(-1, 1) drops the last element
offVariantChange_NoIndexCheck(variantSet, callback) ==
  LET call == [ op |-> "offVariantChange", fieldId |-> variantSet, callback |-> callback,
                error |-> "none" ]
  IN  IF At(_callbacks, variantSet) = Undefined
      THEN Throw(call, "Invalid variant set")
      ELSE LET callbacks == _callbacks[variantSet + 1]
               index == IndexOf(callbacks, callback)
               removed == IF index # -1
                          THEN Splice1(callbacks, index)
                          ELSE IF callbacks = << >>
                          THEN callbacks
                          ELSE Splice1(callbacks, Len(callbacks) - 1)
           IN  /\ _callbacks' = [ _callbacks EXCEPT ![variantSet + 1] = removed ]
               /\ calls' = << >>
               /\ pre' = Snapshot
               /\ last' = call
               /\ UNCHANGED << manager, _configuration >>

\* offVariantChange splicing the configuration array instead of the subscriber list
offVariantChange_SpliceConfiguration(variantSet, callback) ==
  LET call == [ op |-> "offVariantChange", fieldId |-> variantSet, callback |-> callback,
                error |-> "none" ]
  IN  IF At(_callbacks, variantSet) = Undefined
      THEN Throw(call, "Invalid variant set")
      ELSE LET index == IndexOf(_callbacks[variantSet + 1], callback)
           IN  /\ _configuration' = IF index = -1 \/ index >= Len(_configuration)
                                    THEN _configuration
                                    ELSE Splice1(_configuration, index)
               /\ calls' = << >>
               /\ pre' = Snapshot
               /\ last' = call
               /\ UNCHANGED << manager, _callbacks >>

\* offVariantChange(variantSet, callback)
offVariantChange(variantSet, callback) ==
  LET call == [ op |-> "offVariantChange", fieldId |-> variantSet, callback |-> callback,
                error |-> "none" ]
  IN  IF At(_callbacks, variantSet) = Undefined
      THEN Throw(call, "Invalid variant set")
      ELSE LET callbacks == _callbacks[variantSet + 1]
               index == IndexOf(callbacks, callback)
           IN  /\ _callbacks' = IF index = -1
                                THEN _callbacks
                                ELSE [ _callbacks EXCEPT
                                         ![variantSet + 1] = Splice1(callbacks, index) ]
               /\ calls' = << >>
               /\ pre' = Snapshot
               /\ last' = call
               /\ UNCHANGED << manager, _configuration >>

\* a call of getDomain(fieldId)
GetDomainCall(fieldId) ==
  /\ last' = [ op |-> "getDomain", fieldId |-> fieldId, error |-> "none",
               ret |-> getDomain(fieldId) ]
  /\ calls' = << >>
  /\ pre' = Snapshot
  /\ UNCHANGED << manager, _configuration, _callbacks >>

\* a call of getValue(fieldId)
GetValueCall(fieldId) ==
  /\ last' = [ op |-> "getValue", fieldId |-> fieldId, error |-> "none",
               ret |-> getValue(fieldId) ]
  /\ calls' = << >>
  /\ pre' = Snapshot
  /\ UNCHANGED << manager, _configuration, _callbacks >>

\* no Configurator has been constructed
NoConfigurator ==
  /\ manager = [ fields |-> << >> ]
  /\ _configuration = << >>
  /\ _callbacks = << >>
  /\ last = [ op |-> "none", error |-> "none" ]
  /\ calls = << >>
  /\ pre = Snapshot

Init ==
  /\ NoParser
  /\ NoScene
  /\ NoCamera
  /\ NoWalk
  /\ NoMaterial
  /\ NoBuilder
  /\ \E m \in Managers : Constructor(m)
  /\ NoGltfViewer
  /\ NoExtensions
  /\ NoApplications
  /\ NoMesh

Next ==
  \/ /\ \E f \in FieldIdArgs, v \in ValueIdArgs : setValue(f, v)
     /\ UNCHANGED notConfiguratorVars
  \/ /\ \E f \in FieldIdArgs, cb \in Callbacks : onValueChange(f, cb)
     /\ UNCHANGED notConfiguratorVars
  \/ /\ \E f \in FieldIdArgs, cb \in Callbacks : offVariantChange(f, cb)
     /\ UNCHANGED notConfiguratorVars
  \/ /\ \E f \in FieldIdArgs : GetDomainCall(f)
     /\ UNCHANGED notConfiguratorVars
  \/ /\ \E f \in FieldIdArgs : GetValueCall(f)
     /\ UNCHANGED notConfiguratorVars

Spec == Init /\ [][Next]_vars

(***************************************************************************)
(* Vocabulary of the properties, stated over the field domain itself.      *)
(***************************************************************************)
\* the field ids that have an entry
FieldIds == 0 .. (Len(manager.fields) - 1)

\* the value ids the field declares
DeclaredValueIds(f) == 0 .. (Len(manager.fields[f + 1].values) - 1)

\* the elements of a sequence
Range(a) == { a[i] : i \in DOMAIN a }

\* how often callback cb occurs in the subscriber list a
Registrations(a, cb) == Cardinality({ i \in DOMAIN a : a[i] = cb })

\* how often callback cb was invoked by the most recent call
Invocations(cb) == Cardinality({ i \in DOMAIN calls : calls[i].callback = cb })

\* the Error messages that report a field id without an entry
IsInvalidField(message) == message \in { "Invalid field", "Invalid variant set" }

\* the most recent call was setValue with a field id that has an entry and a
\* value id the field declares
ValidSetValue ==
  /\ last.op = "setValue"
  /\ last.fieldId \in FieldIds
  /\ last.valueId \in DeclaredValueIds(last.fieldId)

(***************************************************************************)
(* C1: in every state reached by any sequence of calls, and right after    *)
(* construction, getValue(f) of every field f is defined and is a member   *)
(* of getDomain(f).                                                        *)
(***************************************************************************)
C1_ValueInDomain ==
  \A f \in FieldIds :
    /\ getValue(f) # Undefined
    /\ getValue(f)[1] \in Range(getDomain(f))

\* a valid setValue has moved a field of a two-field configurator off its value
C1_Witness ==
  /\ ValidSetValue
  /\ last.error = "none"
  /\ Len(manager.fields) = 2
  /\ At(pre.configuration, last.fieldId) # Some(last.valueId)

C4_InvalidFieldRejected ==
  (last.op = "setValue" /\ last.fieldId \notin FieldIds) =>
    /\ last.error = "Invalid field"
    /\ _configuration = pre.configuration
    /\ _callbacks = pre.callbacks
    /\ calls = << >>

\* setValue(2, 0) on a two-field configurator that has subscribers
C4_Witness ==
  /\ last.op = "setValue"
  /\ Len(manager.fields) = 2
  /\ last.fieldId = 2
  /\ last.valueId = 0
  /\ last.error # "none"
  /\ \E f \in FieldIds : _callbacks[f + 1] # << >>

(***************************************************************************)
(* C5: setValue(f, v) on an existing field f with v not a declared value   *)
(* of f fails with the invalid-value error, leaves the current value of f  *)
(* (and of every field) unchanged and invokes no subscriber.               *)
(***************************************************************************)
C5_InvalidValueRejected ==
  ( /\ last.op = "setValue"
    /\ last.fieldId \in FieldIds
    /\ last.valueId \notin DeclaredValueIds(last.fieldId) ) =>
    /\ last.error = "Invalid value"
    /\ getValue(last.fieldId) = At(pre.configuration, last.fieldId)
    /\ _configuration = pre.configuration
    /\ calls = << >>

\* a value id one past the field's last is refused on a field with a subscriber
C5_Witness ==
  /\ last.op = "setValue"
  /\ last.fieldId \in FieldIds
  /\ last.valueId = Len(manager.fields[last.fieldId + 1].values)
  /\ last.error # "none"
  /\ _callbacks[last.fieldId + 1] # << >>

(***************************************************************************)
(* C6: a valid setValue(f, v) changes only field f: the value of every     *)
(* other field g is unchanged and no subscription of g is invoked.         *)
(***************************************************************************)
C6_OtherFieldsUntouched ==
  ValidSetValue =>
    /\ \A g \in FieldIds \ { last.fieldId } :
         /\ getValue(g) = At(pre.configuration, g)
         /\ \A i \in DOMAIN calls : calls[i].field # g
    /\ _callbacks = pre.callbacks

\* a valid setValue changed a field while the other field, not at value id 0,
\* had a subscriber
C6_Witness ==
  /\ ValidSetValue
  /\ At(pre.configuration, last.fieldId) # Some(last.valueId)
  /\ \E g \in FieldIds \ { last.fieldId } :
       /\ _callbacks[g + 1] # << >>
       /\ getValue(g) # Some(0)

(***************************************************************************)
(* C7: right after construction every slot holds its field's declared      *)
(* default and every subscriber list is empty; in every later state every  *)
(* field still has a slot holding a value id.                              *)
(***************************************************************************)
C7_ConstructedAtDefaults ==
  /\ last.op = "constructor" =>
       \A f \in FieldIds :
         /\ getValue(f) = Some(manager.fields[f + 1].defaultValue)
         /\ At(_callbacks, f) = Some(<< >>)
  /\ Len(_configuration) = Len(manager.fields)
  /\ Len(_callbacks) = Len(manager.fields)
  /\ \A f \in FieldIds : getValue(f) # Undefined /\ getValue(f)[1] \in Int

\* a configurator just constructed over fields whose defaults are not value id 0
C7_Witness ==
  /\ last.op = "constructor"
  /\ Len(manager.fields) = 2
  /\ \A f \in FieldIds : manager.fields[f + 1].defaultValue # 0

(***************************************************************************)
(* C8: getDomain, getValue, onValueChange and offVariantChange, whether    *)
(* they return or throw, leave every field's current value unchanged.      *)
(***************************************************************************)
C8_OnlySetValueMutates ==
  last.op \in { "getDomain", "getValue", "onValueChange", "offVariantChange" } =>
    _configuration = pre.configuration

\* offVariantChange removed a subscription of a configurator whose fields are
\* not all at their defaults
C8_Witness ==
  /\ last.op = "offVariantChange"
  /\ last.error = "none"
  /\ _callbacks # pre.callbacks
  /\ \E f \in FieldIds : getValue(f) # Some(manager.fields[f + 1].defaultValue)

(***************************************************************************)
(* C9: onValueChange and offVariantChange with a field id that has no      *)
(* entry fail with the invalid-field error and change no subscriber list.  *)
(***************************************************************************)
C9_SubscribeInvalidFieldRejected ==
  (last.op \in { "onValueChange", "offVariantChange" } /\ last.fieldId \notin FieldIds) =>
    /\ IsInvalidField(last.error)
    /\ _callbacks = pre.callbacks

\* onValueChange was refused for a field id without an entry while subscribers exist
C9_Witness ==
  /\ last.op = "onValueChange"
  /\ last.fieldId \notin FieldIds
  /\ last.error # "none"
  /\ \E f \in FieldIds : _callbacks[f + 1] # << >>

(***************************************************************************)
(* C10: offVariantChange(f, cb) on an existing field f on which cb is not  *)
(* registered raises no error and leaves the subscriber list of f, and     *)
(* every other list, unchanged.                                            *)
(***************************************************************************)
C10_OffUnregisteredIsNoOp ==
  ( /\ last.op = "offVariantChange"
    /\ last.fieldId \in FieldIds
    /\ last.callback \notin Range(pre.callbacks[last.fieldId + 1]) ) =>
    /\ last.error = "none"
    /\ _callbacks = pre.callbacks

\* offVariantChange of a callback never registered on a field that has two
\* subscriptions of the other callback
C10_Witness ==
  /\ last.op = "offVariantChange"
  /\ last.fieldId \in FieldIds
  /\ last.callback \notin Range(pre.callbacks[last.fieldId + 1])
  /\ Len(pre.callbacks[last.fieldId + 1]) = 2

(***************************************************************************)
(* C11: getValue(fieldId) raises nothing; it returns the field's current   *)
(* value id when fieldId has an entry and undefined when it has none.      *)
(***************************************************************************)
C11_GetValueOrUndefined ==
  last.op = "getValue" =>
    /\ last.error = "none"
    /\ last.fieldId \in FieldIds => last.ret = Some(pre.configuration[last.fieldId + 1])
    /\ last.fieldId \notin FieldIds => last.ret = Undefined

\* getValue was called with a field id one past the last field of a two-field
\* configurator that has a field moved off its default
C11_Witness ==
  /\ last.op = "getValue"
  /\ Len(manager.fields) = 2
  /\ last.fieldId = 2
  /\ \E f \in FieldIds : getValue(f) # Some(manager.fields[f + 1].defaultValue)

NotStarted == [ pc |-> "unused", frames |-> 0, got |-> FALSE ]

\* the viewer after its constructor: nothing loaded
ViewerConstructor ==
  /\ _gltf = Undefined
  /\ _activeGltfScene = Undefined
  /\ _gltfLoaded = FALSE
  /\ _variantSetManager = Undefined
  /\ _hotspots = Undefined
  /\ _backdrops = Undefined
  /\ _cameraPreviews = Undefined
  /\ rootChildren = { }
  /\ unloaded = { }
  /\ loads = [ c \in LoadIds |-> NotStarted ]
  /\ event = [ op |-> "constructor", load |-> 0 ]

\* the calls suspended at an await
InFlight == { c \in LoadIds : loads[c].pc \in { "loading", "previews" } }

\* destroyGltf(): detach the active scene and drop what was built from it,
\* unload the container held
destroyGltf ==
  /\ _gltfLoaded' = FALSE
  /\ rootChildren' = rootChildren \ Range(_activeGltfScene)
  /\ _activeGltfScene' = Undefined
  /\ IF _activeGltfScene # Undefined
       THEN /\ _variantSetManager' = Undefined
            /\ _backdrops' = Undefined
            /\ _cameraPreviews' = Undefined
            /\ _hotspots' = Undefined
       ELSE UNCHANGED << _variantSetManager, _backdrops, _cameraPreviews, _hotspots >>
  /\ unloaded' = unloaded \cup Range(_gltf)
  /\ _gltf' = Undefined

\* a call of destroyGltf() from outside
DestroyGltfCall ==
  /\ \E c \in LoadIds : loads[c].pc # "unused"
  /\ destroyGltf
  /\ event' = [ op |-> "destroyGltf", load |-> 0 ]
  /\ UNCHANGED loads

\* loadGltf(url) up to its first await: destroyGltf(), then the loader is asked
loadGltf(c) ==
  /\ loads[c].pc = "unused"
  /\ \A d \in LoadIds : d < c => loads[d].pc # "unused"
  /\ destroyGltf
  /\ loads' = [ loads EXCEPT ![c].pc = "loading" ]
  /\ event' = [ op |-> "loadGltf", load |-> c ]

\* the catch block of loadGltf
LoadGltfCatch(c, got) ==
  /\ _gltfLoaded' = TRUE
  /\ loads' = [ loads EXCEPT ![c] = [ pc |-> "rejected", frames |-> 0, got |-> got ] ]
  /\ event' = [ op |-> "rejected", load |-> c ]

\* the loader's promise rejects: nothing was acquired
LoaderRejects(c) ==
  /\ loads[c].pc = "loading"
  /\ LoadGltfCatch(c, FALSE)
  /\ UNCHANGED << _gltf, _activeGltfScene, _variantSetManager, _hotspots, _backdrops,
                  _cameraPreviews, rootChildren, unloaded >>

\* the number of cameras _setSceneHierarchy lists for a scene with n cameras,
\* orbit of them orbit cameras: the default camera is put first when the
\* scene has no orbit camera
CameraListLength(n, orbit) == IF orbit = 0 THEN n + 1 ELSE n

\* the end of _setSceneHierarchy: hotspots, variant sets and backdrops are
\* taken over from the scene when it has any
InitSceneExtras(c) ==
  \E hasHotspots, hasVariantSets, hasBackdrops \in BOOLEAN :
    /\ _hotspots' = IF hasHotspots THEN Some(c) ELSE _hotspots
    /\ _variantSetManager' = IF hasVariantSets THEN Some(c) ELSE _variantSetManager
    /\ _backdrops' = IF hasBackdrops THEN Some(c) ELSE _backdrops

\* the last statement of the try block of loadGltf
LoadGltfDone(c) ==
  /\ _gltfLoaded' = TRUE
  /\ loads' = [ loads EXCEPT ![c] = [ pc |-> "fulfilled", frames |-> 0, got |-> TRUE ] ]
  /\ event' = [ op |-> "fulfilled", load |-> c ]

\* _setSceneHierarchy up to its await: the active scene is detached, the new
\* one becomes active and is attached
SetSceneHierarchy(c) ==
  /\ rootChildren' = (rootChildren \ Range(_activeGltfScene)) \cup { c }
  /\ _activeGltfScene' = Some(c)

\* the loader's promise resolves with a container: loadGltf holds it and sets
\* its default scene; it goes on to the end unless camera previews are due
LoaderResolves(c) ==
  /\ loads[c].pc = "loading"
  /\ _gltf' = Some(c)
  /\ SetSceneHierarchy(c)
  /\ UNCHANGED << _cameraPreviews, unloaded >>
  /\ \E n \in 0 .. MaxSceneCameras : \E orbit \in 0 .. n :
       IF CameraListLength(n, orbit) > 1
         THEN /\ loads' = [ loads EXCEPT ![c] = [ pc |-> "previews",
                                                   frames |-> CameraListLength(n, orbit),
                                                   got |-> TRUE ] ]
              /\ event' = [ op |-> "attached", load |-> c ]
              /\ UNCHANGED << _gltfLoaded, _variantSetManager, _hotspots, _backdrops >>
         ELSE /\ InitSceneExtras(c)
              /\ LoadGltfDone(c)

\* the loader's promise resolves with a container that has no default scene:
\* _setSceneHierarchy(undefined) detaches the active scene and throws on
\* gltfScene.root
LoaderResolvesWithoutScene(c) ==
  /\ loads[c].pc = "loading"
  /\ _gltf' = Some(c)
  /\ rootChildren' = rootChildren \ Range(_activeGltfScene)
  /\ _activeGltfScene' = Undefined
  /\ LoadGltfCatch(c, TRUE)
  /\ UNCHANGED << _variantSetManager, _hotspots, _backdrops, _cameraPreviews, unloaded >>

\* an animation frame was rendered and canvas.toDataURL() returned: the next
\* camera, or the end of _initCameraPreviews and of _setSceneHierarchy
FrameRendered(c) ==
  /\ loads[c].pc = "previews"
  /\ UNCHANGED << _gltf, _activeGltfScene, rootChildren, unloaded >>
  /\ IF loads[c].frames > 1
       THEN /\ loads' = [ loads EXCEPT ![c].frames = @ - 1 ]
            /\ event' = [ op |-> "frame", load |-> c ]
            /\ UNCHANGED << _gltfLoaded, _variantSetManager, _hotspots, _backdrops,
                            _cameraPreviews >>
       ELSE /\ _cameraPreviews' = Some(c)
            /\ InitSceneExtras(c)
            /\ LoadGltfDone(c)

\* an animation frame was rendered and canvas.toDataURL() threw
PreviewFails(c) ==
  /\ loads[c].pc = "previews"
  /\ LoadGltfCatch(c, TRUE)
  /\ UNCHANGED << _gltf, _activeGltfScene, _variantSetManager, _hotspots, _backdrops,
                  _cameraPreviews, rootChildren, unloaded >>

InitGltf ==
  /\ NoParser
  /\ NoScene
  /\ NoCamera
  /\ NoWalk
  /\ NoMaterial
  /\ NoBuilder
  /\ NoConfigurator
  /\ ViewerConstructor
  /\ NoExtensions
  /\ NoApplications
  /\ NoMesh

NextGltf ==
  \/ /\ \E c \in LoadIds : loadGltf(c)
     /\ UNCHANGED notGltfViewerVars
  \/ /\ \E c \in LoadIds : LoaderResolves(c)
     /\ UNCHANGED notGltfViewerVars
  \/ /\ \E c \in LoadIds : LoaderResolvesWithoutScene(c)
     /\ UNCHANGED notGltfViewerVars
  \/ /\ \E c \in LoadIds : LoaderRejects(c)
     /\ UNCHANGED notGltfViewerVars
  \/ /\ \E c \in LoadIds : FrameRendered(c)
     /\ UNCHANGED notGltfViewerVars
  \/ /\ \E c \in LoadIds : PreviewFails(c)
     /\ UNCHANGED notGltfViewerVars
  \/ /\ DestroyGltfCall
     /\ UNCHANGED notGltfViewerVars

SpecGltf == InitGltf /\ [][NextGltf]_vars

(***************************************************************************)
(* Vocabulary of the claims about the load pipeline.                       *)
(***************************************************************************)

\* the containers the loader has returned to a loadGltf call
Returned == { c \in LoadIds : loads[c].got }

\* the returned containers not released: still attached, or never unloaded
Unreleased == { c \in Returned : c \in rootChildren \/ c \notin unloaded }

\* load c is the only loadGltf call made on the viewer so far
OnlyCall(c) == \A d \in LoadIds \ { c } : loads[d].pc = "unused"

(***************************************************************************)
(* C12: release before acquire.  Whatever an earlier load brought is       *)
(* released, detached and unloaded, before the result of a new load is     *)
(* acquired: at no time are the results of two loads unreleased, also when *)
(* the loads overlap at an await.                                          *)
(***************************************************************************)
C12_ReleaseBeforeAcquire == Cardinality(Unreleased) <= 1

(***************************************************************************)
(* C13: a loadGltf call that rejects, at whatever step, leaves no scene    *)
(* root attached to the application root and no container held.  Stated    *)
(* for a viewer on which no other load was made.                           *)
(***************************************************************************)
C13_FailedLoadLeavesNothing ==
  (event.op = "rejected" /\ OnlyCall(event.load)) =>
    /\ rootChildren = { }
    /\ _gltf = Undefined

(***************************************************************************)
(* C32: when no loadGltf call is suspended, every container the loader     *)
(* has returned is the container the viewer holds or has been passed to    *)
(* loader.unload, whatever loadGltf and destroyGltf calls were made and    *)
(* however the loads overlapped.                                           *)
(***************************************************************************)
C32_NoContainerDropped ==
  InFlight = { } =>
    \A c \in Returned : _gltf = Some(c) \/ c \in unloaded

(***************************************************************************)
(* C33: in every state, a viewer without an active glTF scene has no       *)
(* variant set manager, no hotspots, no backdrops and no camera previews,  *)
(* also when destroyGltf or another loadGltf ran while _setSceneHierarchy  *)
(* was waiting for an animation frame.                                     *)
(***************************************************************************)
C33_NoSceneNoExtras ==
  _activeGltfScene = Undefined =>
    /\ _variantSetManager = Undefined
    /\ _hotspots = Undefined
    /\ _backdrops = Undefined
    /\ _cameraPreviews = Undefined

(***************************************************************************)
(* C34: gltfLoaded is false while a loadGltf call is in flight, and it is  *)
(* true when the most recent loadGltf call has just settled, fulfilled or  *)
(* rejected.                                                               *)
(***************************************************************************)
C34_LoadedIffSettled ==
  /\ InFlight # { } => ~_gltfLoaded
  /\ ( /\ event.op \in { "fulfilled", "rejected" }
       /\ \A d \in LoadIds : d > event.load => loads[d].pc = "unused" ) =>
       _gltfLoaded

(***************************************************************************)
(* Extension parsers and the extension registry.                           *)
(*                                                                         *)
(* The two parsers, InteractionHotspotExtensionParser and                  *)
(* VariantSetExtensionParser, add their callbacks to the tables of the     *)
(* registry.  The registry and the parse that walks a document and         *)
(* dispatches to the tables are modelled from the specification.           *)
(***************************************************************************)

\* the name getters of the two parsers
InteractionHotspot_name == "EPIC_interaction_hotspots"
VariantSet_name == "EPIC_level_variant_sets"

ExtensionNames == << InteractionHotspot_name, VariantSet_name >>

Parsers == { "InteractionHotspot", "VariantSet" }

\* the parsers registered and not unregistered since
registeredParsers == { p \in Parsers : registration[p] = "registered" }

\* a table of the registry is a set of entries << name, callback >>, at
\* most one for a name
TableAdd(table, name, callback) ==
  { e \in table : e[1] # name } \cup { << name, callback >> }

TableRemove(table, name) == { e \in table : e[1] # name }

TableHas(table, name) == \E e \in table : e[1] = name

TableGet(table, name) == (CHOOSE e \in table : e[1] = name)[2]

\* InteractionHotspotExtensionParser.register
InteractionHotspot_register ==
  registry' = [ registry EXCEPT
                  !.node = TableAdd(@, InteractionHotspot_name, "InteractionHotspot._parse") ]

\* InteractionHotspotExtensionParser.unregister
InteractionHotspot_unregister ==
  registry' = [ registry EXCEPT !.node = TableRemove(@, InteractionHotspot_name) ]

\* register adding the scene callback to the node table
VariantSet_register_NodeTable ==
  registry' = [ registry EXCEPT
                  !.node = TableAdd(@, VariantSet_name, "VariantSet._scenePostParse") ]

\* VariantSetExtensionParser.register
VariantSet_register ==
  registry' = [ registry EXCEPT
                  !.scene = TableAdd(@, VariantSet_name, "VariantSet._scenePostParse") ]

\* unregister removing from the node table
VariantSet_unregister_NodeTable ==
  registry' = [ registry EXCEPT !.node = TableRemove(@, VariantSet_name) ]

\* VariantSetExtensionParser.unregister
VariantSet_unregister ==
  registry' = [ registry EXCEPT !.scene = TableRemove(@, VariantSet_name) ]

\* the postParse method of a parser
PostParseOf(p) == IF p = "InteractionHotspot" THEN "InteractionHotspot.postParse"
                                                ELSE "VariantSet.postParse"

\* no parse is under way
Idle == parse.stage \in { "idle", "done" }

\* a parser is registered with the registry, between two parses
Register(p) ==
  /\ Idle
  /\ p \notin registeredParsers
  /\ IF p = "InteractionHotspot" THEN InteractionHotspot_register ELSE VariantSet_register
  /\ registration' = [ registration EXCEPT ![p] = "registered" ]
  /\ parse' = [ stage |-> "idle", index |-> 0 ]
  /\ UNCHANGED << document, invoked >>

\* a registered parser is unregistered, between two parses
Unregister(p) ==
  /\ Idle
  /\ p \in registeredParsers
  /\ IF p = "InteractionHotspot" THEN InteractionHotspot_unregister ELSE VariantSet_unregister
  /\ registration' = [ registration EXCEPT ![p] = "unregistered" ]
  /\ parse' = [ stage |-> "idle", index |-> 0 ]
  /\ UNCHANGED << document, invoked >>

\* the extension payloads one node or scene can carry
Payloads == SUBSET { InteractionHotspot_name, VariantSet_name }

\* the invocations made for one node or scene: the callback of each
\* extension it carries that has an entry in the table
Dispatch(table, payload, target) ==
  LET Takes(name) == name \in payload /\ TableHas(table, name)
      names == SelectSeq(ExtensionNames, Takes)
  IN  [ k \in 1 .. Len(names) |-> [ callback |-> TableGet(table, names[k]), target |-> target ] ]

\* the parse of a document begins; the document has one node and one scene
\* at least, and what they carry is read as the parse reaches them
ParseStart ==
  /\ Idle
  /\ \E n \in 1 .. MaxNodes, m \in 1 .. MaxScenes :
       document' = [ nodeCount |-> n, sceneCount |-> m, nodes |-> << >>, scenes |-> << >> ]
  /\ parse' = [ stage |-> "node", index |-> 1 ]
  /\ invoked' = << >>
  /\ UNCHANGED << registry, registration >>

\* the node stage: the next node of the document
ParseNode ==
  /\ parse.stage = "node"
  /\ \E payload \in Payloads :
       /\ document' = [ document EXCEPT !.nodes = Append(@, payload) ]
       /\ invoked' = invoked \o Dispatch(registry.node, payload, << "node", parse.index >>)
  /\ parse' = IF parse.index < document.nodeCount
                THEN [ parse EXCEPT !.index = @ + 1 ]
                ELSE [ stage |-> "scene", index |-> 1 ]
  /\ UNCHANGED << registry, registration >>

\* the scene stage: the next scene of the document
ParseScene ==
  /\ parse.stage = "scene"
  /\ \E payload \in Payloads :
       /\ document' = [ document EXCEPT !.scenes = Append(@, payload) ]
       /\ invoked' = invoked \o Dispatch(registry.scene, payload, << "scene", parse.index >>)
  /\ parse' = IF parse.index < document.sceneCount
                THEN [ parse EXCEPT !.index = @ + 1 ]
                ELSE [ stage |-> "postParse", index |-> 0 ]
  /\ UNCHANGED << registry, registration >>

\* the post-parse stage: postParse of every registered parser, once
PostParse ==
  /\ parse.stage = "postParse"
  /\ LET Takes(p) == p \in registeredParsers
         ps == SelectSeq(<< "InteractionHotspot", "VariantSet" >>, Takes)
     IN  invoked' = invoked \o [ k \in 1 .. Len(ps) |->
                                   [ callback |-> PostParseOf(ps[k]), target |-> << "asset", 0 >> ] ]
  /\ parse' = [ stage |-> "done", index |-> 0 ]
  /\ UNCHANGED << registry, registration, document >>

InitExt ==
  /\ NoParser
  /\ NoScene
  /\ NoCamera
  /\ NoWalk
  /\ NoMaterial
  /\ NoBuilder
  /\ NoConfigurator
  /\ NoGltfViewer
  /\ NoApplications
  /\ NoMesh
  /\ registry = [ node |-> { }, scene |-> { } ]
  /\ registration = [ p \in { "InteractionHotspot", "VariantSet" } |-> "never" ]
  /\ document = [ nodeCount |-> 0, sceneCount |-> 0, nodes |-> << >>, scenes |-> << >> ]
  /\ parse = [ stage |-> "idle", index |-> 0 ]
  /\ invoked = << >>

NextExt ==
  \/ /\ \E p \in Parsers : Register(p)
     /\ UNCHANGED notExtensionVars
  \/ /\ \E p \in Parsers : Unregister(p)
     /\ UNCHANGED notExtensionVars
  \/ /\ ParseStart
     /\ UNCHANGED notExtensionVars
  \/ /\ ParseNode
     /\ UNCHANGED notExtensionVars
  \/ /\ ParseScene
     /\ UNCHANGED notExtensionVars
  \/ /\ PostParse
     /\ UNCHANGED notExtensionVars

SpecExt == InitExt /\ [][NextExt]_vars

(***************************************************************************)
(* Vocabulary of the claims about the extension callbacks.                 *)
(***************************************************************************)

\* the stage a callback belongs to: InteractionHotspot._parse is the node
\* callback, VariantSet._scenePostParse the scene callback, the postParse
\* methods the post-parse callbacks
CallbackStages ==
  << { "InteractionHotspot._parse" },
     { "VariantSet._scenePostParse" },
     { "InteractionHotspot.postParse", "VariantSet.postParse" } >>

StageOf(callback) == CHOOSE k \in DOMAIN CallbackStages : callback \in CallbackStages[k]

\* the parser a callback belongs to
ParserOf(callback) ==
  IF callback \in { "InteractionHotspot._parse", "InteractionHotspot.postParse" }
    THEN "InteractionHotspot"
    ELSE "VariantSet"

C15_RegisterUnregisterSymmetric ==
  /\ registry.node =
       { << InteractionHotspot_name, "InteractionHotspot._parse" >> : p \in registeredParsers \cap { "InteractionHotspot" } }
  /\ registry.scene =
       { << VariantSet_name, "VariantSet._scenePostParse" >> : p \in registeredParsers \cap { "VariantSet" } }
  /\ parse.stage # "idle" =>
       \A i \in DOMAIN invoked : ParserOf(invoked[i].callback) \in registeredParsers

\* a parse has finished, after the variant set parser was unregistered, of
\* a document whose scene carries variant sets and whose node carries a
\* hotspot: only the hotspot parser was invoked
C15_Witness ==
  /\ parse.stage = "done"
  /\ registration["VariantSet"] = "unregistered"
  /\ registration["InteractionHotspot"] = "registered"
  /\ \E k \in DOMAIN document.scenes : VariantSet_name \in document.scenes[k]
  /\ \E i \in DOMAIN invoked : invoked[i].callback = "InteractionHotspot._parse"

(***************************************************************************)
(* PlayCanvasViewer: the engine application behind a viewer.               *)
(*                                                                         *)
(* The engine keeps the current application: the constructor of            *)
(* pc.Application makes the new application current, destroy() of the      *)
(* current application leaves none current, and                            *)
(* pc.Application.getApplication() returns the current one.  The           *)
(* application created for viewer v is named v.                            *)
(***************************************************************************)

\* pc.Application.getApplication()
getApplication == currentApplication

\* the applications created and not destroyed
LiveApplications == { a \in ViewerIds : applications[a] \in { "created", "started" } }

\* _createApp that does not look for an existing application
_createApp_KeepExisting(v) ==
  /\ applications' = [ applications EXCEPT ![v] = "started" ]
  /\ currentApplication' = Some(v)
  /\ engineCalls' = << << "new", v >>, << "start", v >> >>

\* _createApp(): an existing application is destroyed, then the new one is
\* created and started
_createApp(v) ==
  LET existingApp == getApplication
  IN  /\ applications' = [ a \in ViewerIds |->
                             IF a = v THEN "started"
                             ELSE IF a \in Range(existingApp) THEN "destroyed"
                             ELSE applications[a] ]
      /\ currentApplication' = Some(v)
      /\ engineCalls' = [ k \in 1 .. Len(existingApp) |-> << "destroy", existingApp[k] >> ]
                          \o << << "new", v >>, << "start", v >> >>

\* new PlayCanvasViewer(canvas, ...)
NewViewer(v) ==
  /\ viewers[v] = "none"
  /\ _createApp(v)
  /\ viewers' = [ viewers EXCEPT ![v] = "alive" ]

\* viewer.destroy(): the viewer's application is destroyed
ViewerDestroy(v) ==
  /\ viewers[v] = "alive"
  /\ applications' = [ applications EXCEPT ![v] = "destroyed" ]
  /\ currentApplication' = IF currentApplication = Some(v) THEN Undefined ELSE currentApplication
  /\ engineCalls' = << << "destroy", v >> >>
  /\ viewers' = [ viewers EXCEPT ![v] = "destroyed" ]

InitApp ==
  /\ NoParser
  /\ NoScene
  /\ NoCamera
  /\ NoWalk
  /\ NoMaterial
  /\ NoBuilder
  /\ NoConfigurator
  /\ NoGltfViewer
  /\ NoExtensions
  /\ NoApplications
  /\ NoMesh

NextApp ==
  \/ /\ \E v \in ViewerIds : NewViewer(v)
     /\ UNCHANGED notApplicationVars
  \/ /\ \E v \in ViewerIds : ViewerDestroy(v)
     /\ UNCHANGED notApplicationVars

SpecApp == InitApp /\ [][NextApp]_vars

(***************************************************************************)
(* C16: constructing a viewer destroys the existing engine application     *)
(* before the new one is created and started: no application but the new   *)
(* one is live after the constructor, every destroy of the step precedes   *)
(* its new and start, and at most one application is live at any time.     *)
(***************************************************************************)
C16_AtMostOneLiveApplication ==
  /\ Cardinality(LiveApplications) <= 1
  /\ \A i, j \in DOMAIN engineCalls :
       (engineCalls[i][1] = "destroy" /\ engineCalls[j][1] \in { "new", "start" }) => i < j
  /\ \A i, j \in DOMAIN engineCalls :
       (engineCalls[i][1] = "new" /\ engineCalls[j][1] = "start") => i < j

\* a third viewer was constructed while the second was alive: the second
\* viewer's application was destroyed by the constructor of the third
C16_Witness ==
  /\ Len(engineCalls) > 2
  /\ engineCalls[1][1] = "destroy"
  /\ \E v \in ViewerIds : viewers[v] = "destroyed"
  /\ Cardinality({ v \in ViewerIds : viewers[v] = "alive" }) > 1
  /\ Cardinality(LiveApplications) = 1

(***************************************************************************)
(* translateMesh: from a glTF mesh to one engine mesh per primitive.       *)
(*                                                                         *)
(* translateMesh is synchronous; the model takes it one primitive at a     *)
(* time, a step being one run of the body of data.primitives.forEach.      *)
(* The primitives of the mesh are read as the loop reaches them.  An       *)
(* exception thrown in the body ends the loop and translateMesh.           *)
(***************************************************************************)

\* the attribute semantics the model follows, of the eight translateMesh
\* gathers by the same two steps: positions and normals
Semantics == { "POSITION", "NORMAL" }

\* the arrays gathered for a primitive: one per semantic, and the indices
Slots == Semantics \cup { "indices" }

\* a KHR_draco_mesh_compression payload: what the backend makes of it, and
\* the semantics its attributes map names.  status is that of the decode:
\* ok, not ok, or ok with an output geometry whose ptr is 0
DracoPayloads ==
  { [ geometryType |-> "INVALID_GEOMETRY_TYPE", status |-> "none", attributes |-> a ] :
      a \in SUBSET Semantics }
  \cup
  { [ geometryType |-> t, status |-> st, attributes |-> a ] :
      t \in { "POINT_CLOUD", "TRIANGULAR_MESH" },
      st \in { "ok", "notOk", "nullHandle" },
      a \in SUBSET Semantics }

\* a primitive: the semantics primitive.attributes names, whether reading
\* the POSITION accessor fails, whether primitive.indices is defined, and
\* the draco extension if any
Primitive(attributes, positionFails, indices, draco) ==
  [ attributes |-> attributes, positionFails |-> positionFails, indices |-> indices,
    draco |-> draco ]

\* a primitive without the draco extension: nothing decoded
NoDecode ==
  [ supplied |-> { }, allocated |-> { }, live |-> { }, log |-> << >>, error |-> "none" ]

\* the draco branch.  With an invalid geometry type status stays undefined
\* and status.ok() throws.  A failed decode is only logged; the backend
\* then either throws on the use of the failed geometry (aborts) or hands
\* out what it has.  Every attribute named in the payload is extracted,
\* the faces of a triangular mesh become the indices, and the backend
\* objects are destroyed at the end of the branch.
DracoDecode(d, aborts) ==
  IF d.geometryType = "INVALID_GEOMETRY_TYPE"
    THEN [ supplied |-> { },
           allocated |-> { "buffer", "decoder" },
           live |-> { "buffer", "decoder" },
           log |-> << "Invalid geometry type" >>,
           error |-> "TypeError" ]
    ELSE LET failed == d.status # "ok"
             log == IF failed THEN << "status.error_msg()" >> ELSE << >>
             triangular == d.geometryType = "TRIANGULAR_MESH"
         IN  IF failed /\ aborts
               THEN [ supplied |-> { },
                      allocated |-> { "buffer", "decoder", "outputGeometry" },
                      live |-> { "buffer", "decoder", "outputGeometry" },
                      log |-> log,
                      error |-> "RuntimeError" ]
               ELSE [ supplied |-> d.attributes \cup (IF triangular THEN { "indices" } ELSE { }),
                      allocated |-> { "buffer", "decoder", "outputGeometry" }
                                      \cup (IF d.attributes # { } THEN { "attributeData" } ELSE { })
                                      \cup (IF triangular THEN { "face" } ELSE { }),
                      live |-> { },
                      log |-> log,
                      error |-> "none" ]

\* whether the primitive names an accessor for the array
Declares(p, slot) == IF slot = "indices" THEN p.indices ELSE slot \in p.attributes

\* getAccessorData throws: the read range of the accessor exceeds its buffer
getAccessorData_Fails(p, slot) == slot = "POSITION" /\ p.positionFails

\* the accessor reads, with every named accessor read whatever was decoded
AccessorFallback_Always(p, supplied) ==
  LET wanted == { slot \in Slots : Declares(p, slot) }
  IN  IF "POSITION" \in wanted /\ getAccessorData_Fails(p, "POSITION")
        THEN [ reads |-> { "POSITION" }, resolved |-> { }, error |-> "AccessorOutOfBounds" ]
        ELSE [ reads |-> wanted, resolved |-> wanted, error |-> "none" ]

\* the accessor reads: an array still null is read from the accessor the
\* primitive names for it.  POSITION is read first; a read that fails
\* throws.
AccessorFallback(p, supplied) ==
  LET wanted == { slot \in Slots : Declares(p, slot) /\ slot \notin supplied }
  IN  IF "POSITION" \in wanted /\ getAccessorData_Fails(p, "POSITION")
        THEN [ reads |-> { "POSITION" }, resolved |-> { }, error |-> "AccessorOutOfBounds" ]
        ELSE [ reads |-> wanted, resolved |-> wanted, error |-> "none" ]

\* nothing read: an exception was thrown before
NoReads == [ reads |-> { }, resolved |-> { }, error |-> "none" ]

\* where the arrays of the primitive come from.  The accessor data is
\* assigned after the decoded data; normals are calculated when there are
\* positions and no normals
SourcesOf(supplied, resolved) ==
  [ slot \in Slots |->
      IF slot \in resolved THEN "accessor"
      ELSE IF slot \in supplied THEN "draco"
      ELSE IF slot = "NORMAL" /\ "POSITION" \in supplied \cup resolved THEN "calculated"
      ELSE "none" ]

\* the bounding box is taken from the accessor primitive.attributes.POSITION
\* names: accessor.min throws when the primitive names none
BoundingBoxError(p) == IF "POSITION" \in p.attributes THEN "none" ELSE "TypeError"

\* one run of the body of data.primitives.forEach, for primitive p; aborts
\* tells how the backend takes the use of a geometry it failed to decode
ForEachPrimitive(p, aborts) ==
  LET i == translate.index + 1
      dec == IF p.draco = Undefined THEN NoDecode ELSE DracoDecode(p.draco[1], aborts)
      acc == IF dec.error = "none" THEN AccessorFallback(p, dec.supplied) ELSE NoReads
      error == IF dec.error # "none" THEN dec.error
               ELSE IF acc.error # "none" THEN acc.error
               ELSE BoundingBoxError(p)
  IN  /\ primitive' = Some(p)
      /\ sources' = SourcesOf(dec.supplied, acc.resolved)
      /\ accessorReads' = acc.reads
      /\ backendObjects' = [ allocated |-> dec.allocated, live |-> dec.live ]
      /\ consoleLog' = dec.log
      /\ IF error = "none"
           THEN /\ meshes' = Append(meshes, i)
                /\ translate' = [ translate EXCEPT !.index = i ]
           ELSE /\ meshes' = meshes
                /\ translate' = [ translate EXCEPT !.index = i, !.pc = "threw",
                                                   !.error = error ]

\* the loop reaches the next primitive of the mesh
TranslatePrimitive ==
  /\ translate.pc = "running"
  /\ translate.index < translate.count
  /\ \E attributes \in SUBSET Semantics, indices \in BOOLEAN :
       \E positionFails \in { f \in BOOLEAN : f => "POSITION" \in attributes } :
         \/ ForEachPrimitive(Primitive(attributes, positionFails, indices, Undefined), FALSE)
         \/ \E d \in DracoPayloads :
              \E aborts \in { b \in BOOLEAN : b => d.status \in { "notOk", "nullHandle" } } :
                ForEachPrimitive(Primitive(attributes, positionFails, indices, Some(d)), aborts)

\* the end of translateMesh: return meshes
TranslateMeshReturn ==
  /\ translate.pc = "running"
  /\ translate.index = translate.count
  /\ translate' = [ translate EXCEPT !.pc = "returned" ]
  /\ UNCHANGED << primitive, sources, accessorReads, backendObjects, consoleLog, meshes >>

\* translateMesh is called for a mesh of one primitive or more; without
\* accessors or buffer views in the document it warns and returns nothing
InitMesh ==
  /\ NoParser
  /\ NoScene
  /\ NoCamera
  /\ NoWalk
  /\ NoMaterial
  /\ NoBuilder
  /\ NoConfigurator
  /\ NoGltfViewer
  /\ NoExtensions
  /\ NoApplications
  /\ \E n \in 1 .. MaxPrimitives, missing \in BOOLEAN :
       /\ translate = [ pc |-> IF missing THEN "returnedUndefined" ELSE "running",
                        index |-> 0, count |-> n, error |-> "none" ]
       /\ consoleLog = IF missing THEN << "Missing accessors and/or buffer views" >> ELSE << >>
  /\ primitive = Undefined
  /\ sources = [ slot \in Slots |-> "none" ]
  /\ accessorReads = { }
  /\ backendObjects = [ allocated |-> { }, live |-> { } ]
  /\ meshes = << >>

NextMesh ==
  \/ /\ TranslatePrimitive
     /\ UNCHANGED notMeshVars
  \/ /\ TranslateMeshReturn
     /\ UNCHANGED notMeshVars

SpecMesh == InitMesh /\ [][NextMesh]_vars

(***************************************************************************)
(* Vocabulary of the claims about translateMesh.                           *)
(***************************************************************************)

\* the primitive most recently handled carries a draco payload
Compressed == primitive # Undefined /\ primitive[1].draco # Undefined

\* the payload of that primitive
Payload == primitive[1].draco[1]

\* the backend decoded the payload and reported failure
DecodeFailed ==
  /\ Compressed
  /\ Payload.geometryType # "INVALID_GEOMETRY_TYPE"
  /\ Payload.status # "ok"

\* the arrays the payload of the primitive provides
PayloadProvides ==
  IF Compressed /\ Payload.geometryType # "INVALID_GEOMETRY_TYPE"
    THEN Payload.attributes
           \cup (IF Payload.geometryType = "TRIANGULAR_MESH" THEN { "indices" } ELSE { })
    ELSE { }

\* neither the payload nor an accessor yields positions for the primitive
PositionUnresolved ==
  /\ primitive # Undefined
  /\ "POSITION" \notin PayloadProvides
  /\ "POSITION" \notin primitive[1].attributes \/ primitive[1].positionFails

(***************************************************************************)
(* C17: when translateMesh leaves the decode of a compressed primitive,    *)
(* by its end or by an exception, every object it allocated in the decoder *)
(* backend has been destroyed.                                             *)
(***************************************************************************)
C17_BackendObjectsReleased == backendObjects.live = { }

(***************************************************************************)
(* C18: when the backend reports a status that is not ok, or a null        *)
(* result handle, the decode fails with a DecodeFailure and no array of    *)
(* the primitive comes from the payload.                                   *)
(***************************************************************************)
C18_DecodeFailureRaised ==
  DecodeFailed =>
    /\ translate.error = "DecodeFailure"
    /\ \A slot \in Slots : sources[slot] # "draco"

(***************************************************************************)
(* C19: a primitive whose positions cannot be resolved is skipped with a   *)
(* warning: translateMesh does not throw, no mesh is pushed for the        *)
(* primitive, and the meshes of the other primitives are returned.  Stated *)
(* for a primitive without compressed data.                                *)
(***************************************************************************)
C19_UnresolvedPositionSkipped ==
  (PositionUnresolved /\ ~Compressed) =>
    /\ translate.pc # "threw"
    /\ translate.index \notin Range(meshes)
    /\ consoleLog # << >>

(***************************************************************************)
(* C20: each array of a primitive has one source.  What the compressed     *)
(* payload provides comes from the payload and its accessor is not read;   *)
(* what the payload does not provide and the primitive names an accessor   *)
(* for is read from that accessor; nothing else is read.                   *)
(***************************************************************************)
C20_OneSourcePerArray ==
  primitive # Undefined =>
    \A slot \in Slots :
      /\ slot \in PayloadProvides => slot \notin accessorReads
      /\ slot \in accessorReads => Declares(primitive[1], slot)
      /\ translate.error = "none" =>
           sources[slot] = IF slot \in PayloadProvides THEN "draco"
                           ELSE IF Declares(primitive[1], slot) THEN "accessor"
                           ELSE IF slot = "NORMAL" /\ sources["POSITION"] # "none" THEN "calculated"
                           ELSE "none"

\* a triangular mesh was decoded for a primitive that names accessors for
\* positions, normals and indices while the payload has positions only:
\* positions and indices come from the payload, normals from the accessor
C20_Witness ==
  /\ Compressed
  /\ translate.error = "none"
  /\ Payload.geometryType = "TRIANGULAR_MESH"
  /\ Payload.status = "ok"
  /\ Payload.attributes = { "POSITION" }
  /\ { "POSITION", "NORMAL" } \subseteq primitive[1].attributes
  /\ primitive[1].indices
  /\ sources["POSITION"] = "draco"
  /\ sources["NORMAL"] = "accessor"
  /\ accessorReads = primitive[1].attributes \ { "POSITION" }

(***************************************************************************)
(* translateMesh: the steps that build the geometry of one primitive.      *)
(*                                                                         *)
(* Each step is a function of the arrays and counts gathered before it.    *)
(* A step of the model runs one of them on inputs of its choice and keeps  *)
(* what it was given and what it produced.                                 *)
(***************************************************************************)

\* the largest point count that gets 16-bit indices
MaxUint16Points == 65535

\* the number of values of an element of a Uint16Array
Uint16Values == 65536

\* the point counts and vertex counts the model takes: those about the limit
Counts == (MaxUint16Points - CountSpread) .. (MaxUint16Points + 1 + CountSpread)

\* what an element of a Uint16Array or Uint32Array holds after value was
\* assigned to it.  The values of the model are far below 2^32
StoreIn(bits, value) == IF bits = 16 THEN value % Uint16Values ELSE value

\* the width chosen with the limit one point higher
IndexBits_OnePointLate(numPoints) == IF numPoints > MaxUint16Points + 1 THEN 32 ELSE 16

\* the element width of the index array of a decoded triangular mesh
IndexBits(numPoints) == IF numPoints > MaxUint16Points THEN 32 ELSE 16

\* the index array of a decoded triangular mesh: the corners of every face,
\* as the backend hands them out, assigned to an array of the width chosen
DecodedIndices(numPoints, faceValues) ==
  [ bits |-> IndexBits(numPoints),
    data |-> [ k \in DOMAIN faceValues |-> StoreIn(IndexBits(numPoints), faceValues[k]) ] ]

\* the corners of numFaces faces of a mesh of numPoints points: each the
\* first or the last point
FaceValues(numPoints, numFaces) == [ 1 .. 3 * numFaces -> { 0, numPoints - 1 } ]

\* the decoded meshes handed to the step that builds the index array
DecodeFacesInputs ==
  UNION { { [ op |-> "DecodeFaces", numPoints |-> numPoints, faceValues |-> faceValues ] :
              faceValues \in FaceValues(numPoints, numFaces) } :
            numPoints \in Counts, numFaces \in 1 .. MaxFaces }

\* the faces of a decoded triangular mesh become the index array
DecodeFaces ==
  /\ buildInput.op = "DecodeFaces"
  /\ buildOutput.op = "none"
  /\ buildOutput' = [ op |-> "DecodeFaces",
                      indices |-> DecodedIndices(buildInput.numPoints, buildInput.faceValues) ]
  /\ UNCHANGED buildInput

\* calculateIndices(numVertices): a Uint16Array of numVertices elements,
\* element i assigned i
calculateIndices(numVertices) == [ k \in 1 .. numVertices |-> StoreIn(16, k - 1) ]

\* the primitives handed to the step that calculates normals: positions of
\* so many vertices or none, normals or none, indices or none
CalculateNormalsInputs ==
  { [ op |-> "CalculateNormals", positions |-> positions, normals |-> normals,
      indices |-> indices ] :
      positions \in { Undefined } \cup { Some(n) : n \in (0 .. CountSpread) \cup Counts },
      normals \in BOOLEAN,
      indices \in BOOLEAN }

\* normals are calculated when there are positions and no normals, over the
\* indices of the primitive or, without any, over calculateIndices; the
\* primitive is drawn indexed when it has indices, else as numVertices vertices
CalculateNormals ==
  /\ buildInput.op = "CalculateNormals"
  /\ buildOutput.op = "none"
  /\ LET numVertices == IF buildInput.positions # Undefined THEN buildInput.positions[1] ELSE 0
         calculates == buildInput.positions # Undefined /\ ~buildInput.normals
     IN  buildOutput' =
           [ op |-> "CalculateNormals",
             numVertices |-> numVertices,
             normals |-> IF calculates THEN "calculated"
                         ELSE IF buildInput.normals THEN "given" ELSE "none",
             over |-> IF ~calculates THEN "none"
                      ELSE IF buildInput.indices THEN "indices"
                      ELSE "calculateIndices(numVertices)",
             indexed |-> buildInput.indices,
             count |-> IF buildInput.indices THEN Undefined ELSE Some(numVertices) ]
  /\ UNCHANGED buildInput

\* a JavaScript condition on a value that is a number or undefined: false
\* for undefined and for 0
Truthy(value) == value # Undefined /\ value[1] # 0

MorphChannels == { "POSITION", "NORMAL", "TANGENT" }

\* a morph target: for each channel the index of an accessor, or undefined
MorphTargetData == [ MorphChannels -> { Undefined } \cup { Some(a) : a \in 0 .. MaxAccessorIndex } ]

\* the primitives handed to the step that builds the morph targets:
\* primitive.targets undefined, or one or two targets
MorphTargetsInputs ==
  { [ op |-> "MorphTargets", targets |-> targets ] :
      targets \in { Undefined }
                    \cup { Some(<< t >>) : t \in MorphTargetData }
                    \cup { Some(<< t, u >>) : t, u \in MorphTargetData } }

\* new pcMorphTarget(...): the delta array of a channel is the data of the
\* accessor the target names when target[channel] is truthy, else null.
\* A delta array is named by its accessor index; << >> stands for null.
pcMorphTarget(target) ==
  [ channel \in MorphChannels |->
      IF Truthy(target[channel]) THEN Some(target[channel][1]) ELSE Undefined ]

\* the morph of the mesh: one pcMorphTarget per target of the primitive
MorphTargets ==
  /\ buildInput.op = "MorphTargets"
  /\ buildOutput.op = "none"
  /\ buildOutput' =
       [ op |-> "MorphTargets",
         morph |-> IF buildInput.targets = Undefined
                     THEN Undefined
                     ELSE Some([ k \in DOMAIN buildInput.targets[1] |->
                                   pcMorphTarget(buildInput.targets[1][k]) ]) ]
  /\ UNCHANGED buildInput

(***************************************************************************)
(* The vertex buffer of a primitive: its layout and its interleaved data.  *)
(* The buffer is held byte by byte: a byte written through the Float32     *)
(* view holds the value written and its place among the four bytes of the  *)
(* value, a byte written through the Uint8 view holds a number.            *)
(***************************************************************************)

\* the entries of vertexDesc in the order of the pushes, with the array
\* whose presence pushes each
AllDescriptions ==
  << [ array |-> "positions", semantic |-> "POSITION", components |-> 3, type |-> "TYPE_FLOAT32" ],
     [ array |-> "normals", semantic |-> "NORMAL", components |-> 3, type |-> "TYPE_FLOAT32" ],
     [ array |-> "tangents", semantic |-> "TANGENT", components |-> 4, type |-> "TYPE_FLOAT32" ],
     [ array |-> "texCoord0", semantic |-> "TEXCOORD0", components |-> 2, type |-> "TYPE_FLOAT32" ],
     [ array |-> "texCoord1", semantic |-> "TEXCOORD1", components |-> 2, type |-> "TYPE_FLOAT32" ],
     [ array |-> "colors", semantic |-> "COLOR", components |-> 4, type |-> "TYPE_UINT8" ],
     [ array |-> "joints", semantic |-> "BLENDINDICES", components |-> 4, type |-> "TYPE_UINT8" ],
     [ array |-> "weights", semantic |-> "BLENDWEIGHT", components |-> 4, type |-> "TYPE_FLOAT32" ] >>

\* the names of the arrays of a primitive
Arrays == { AllDescriptions[k].array : k \in DOMAIN AllDescriptions }

\* a layout that pushes the tangent before the normal
vertexDesc_TangentFirst(present) ==
  LET Pushed(description) == description.array \in present
  IN  SelectSeq(<< AllDescriptions[1], AllDescriptions[3], AllDescriptions[2] >>
                  \o SubSeq(AllDescriptions, 4, 8), Pushed)

\* vertexDesc: one entry for every array that is not null, in the order of
\* the tests
vertexDesc(present) ==
  LET Pushed(description) == description.array \in present
  IN  SelectSeq(AllDescriptions, Pushed)

\* the bytes an element of the layout takes in a vertex, a multiple of four
ElementSize(description) ==
  LET size == description.components * (IF description.type = "TYPE_FLOAT32" THEN 4 ELSE 1)
  IN  ((size + 3) \div 4) * 4

RECURSIVE SizeOfFirst(_, _)
\* the bytes of the first k elements of a layout
SizeOfFirst(descriptions, k) ==
  IF k = 0 THEN 0
  ELSE SizeOfFirst(descriptions, k - 1) + ElementSize(descriptions[k])

\* new pc.VertexFormat(device, vertexDesc): the elements follow each other
\* in a vertex, and the stride of each is the size of a vertex
VertexFormat(descriptions) ==
  [ elements |->
      [ k \in DOMAIN descriptions |->
          [ name |-> descriptions[k].semantic,
            offset |-> SizeOfFirst(descriptions, k - 1),
            stride |-> SizeOfFirst(descriptions, Len(descriptions)) ] ],
    size |-> SizeOfFirst(descriptions, Len(descriptions)) ]

\* getAttribute(semantic): the first element of that name
getAttribute(vertexFormat, semantic) ==
  LET elements == vertexFormat.elements
  IN  elements[CHOOSE k \in DOMAIN elements :
                 /\ elements[k].name = semantic
                 /\ \A j \in 1 .. k - 1 : elements[j].name # semantic]

\* the value at an index of one of the arrays of floats of the primitive
\* (normals: read from the accessor, or calculated from the positions)
FloatAt(array, calculated, index) ==
  [ array |-> array, calculated |-> calculated, index |-> index ]

\* colors[index], in hundredths: 0, 0.75, 1.5, 0.25, 1, 1.75, ...
ColorAt(index) == (75 * index) % 200

\* joints[index]
JointAt(index) == index + 1

\* Math.round(pc.math.clamp(c, 0, 1) * 255), c in hundredths
NormalizedByte(c) ==
  LET clamped == IF c > 100 THEN 100 ELSE IF c < 0 THEN 0 ELSE c
  IN  (clamped * 255 + 50) \div 100

\* vertexDataF32[dstIndex] = value
WriteF32(vertexData, dstIndex, value) ==
  [ byte \in DOMAIN vertexData |->
      IF byte \div 4 = dstIndex
        THEN [ f32 |-> value, lane |-> byte % 4 ]
        ELSE vertexData[byte] ]

\* vertexDataU8[dstIndex] = value
WriteU8(vertexData, dstIndex, value) ==
  [ byte \in DOMAIN vertexData |->
      IF byte = dstIndex THEN [ u8 |-> value % 256 ] ELSE vertexData[byte] ]

RECURSIVE WriteFloats(_, _, _, _, _, _, _)
\* the body of a loop over the vertices that writes one array of floats:
\* component c of vertex i, then the rest
WriteFloats(vertexData, input, attr, array, components, i, c) ==
  IF i >= input.numVertices THEN vertexData
  ELSE IF c >= components
    THEN WriteFloats(vertexData, input, attr, array, components, i + 1, 0)
    ELSE WriteFloats(
           WriteF32(vertexData,
                    attr.offset \div 4 + i * (attr.stride \div 4) + c,
                    FloatAt(array,
                            array = "normals" /\ "normals" \notin input.arrays,
                            i * components + c)),
           input, attr, array, components, i, c + 1)

RECURSIVE WriteColors(_, _, _, _)
\* the loop that writes the colours: red, green and blue of the vertex, and
\* its alpha when the accessor is a VEC4, else 255
WriteColors(vertexData, input, attr, i) ==
  IF i >= input.numVertices THEN vertexData
  ELSE LET dstIndex == attr.offset + i * attr.stride
           srcIndex == IF input.colorType = "VEC4" THEN i * 4 ELSE i * 3
           r == WriteU8(vertexData, dstIndex, NormalizedByte(ColorAt(srcIndex)))
           g == WriteU8(r, dstIndex + 1, NormalizedByte(ColorAt(srcIndex + 1)))
           b == WriteU8(g, dstIndex + 2, NormalizedByte(ColorAt(srcIndex + 2)))
           a == WriteU8(b, dstIndex + 3,
                        IF input.colorType = "VEC4"
                          THEN NormalizedByte(ColorAt(srcIndex + 3))
                          ELSE 255)
       IN  WriteColors(a, input, attr, i + 1)

RECURSIVE WriteJoints(_, _, _, _, _)
\* the loop that writes the joint indices
WriteJoints(vertexData, input, attr, i, c) ==
  IF i >= input.numVertices THEN vertexData
  ELSE IF c >= 4
    THEN WriteJoints(vertexData, input, attr, i + 1, 0)
    ELSE WriteJoints(
           WriteU8(vertexData, attr.offset + i * attr.stride + c, JointAt(i * 4 + c)),
           input, attr, i, c + 1)

\* the arrays that are not null when the layout is made: those of the
\* primitive, and the normals calculated when it has positions and no
\* normals
ArraysOf(input) ==
  input.arrays \cup (IF "positions" \in input.arrays THEN { "normals" } ELSE {})

RECURSIVE WriteArrays(_, _, _, _)
\* the writes of the arrays of the layout from the k-th on, in the order of
\* the layout
WriteArrays(vertexData, input, vertexFormat, k) ==
  IF k > Len(AllDescriptions) THEN vertexData
  ELSE LET description == AllDescriptions[k]
           attr == getAttribute(vertexFormat, description.semantic)
           written ==
             IF description.array \notin ArraysOf(input) THEN vertexData
             ELSE IF description.array = "colors"
               THEN WriteColors(vertexData, input, attr, 0)
             ELSE IF description.array = "joints"
               THEN WriteJoints(vertexData, input, attr, 0, 0)
             ELSE WriteFloats(vertexData, input, attr, description.array,
                              description.components, 0, 0)
       IN  WriteArrays(written, input, vertexFormat, k + 1)

\* the primitives whose vertex buffer is built: the arrays it has, the
\* number of its vertices (0 without positions), the type of the accessor
\* of its colours
VertexBufferInputs ==
  { [ op |-> "VertexBuffer", arrays |-> arrays, numVertices |-> numVertices,
      colorType |-> colorType ] :
      arrays \in SUBSET Arrays,
      numVertices \in 0 .. MaxVertices,
      colorType \in { "VEC3", "VEC4" } }
    \ { input \in [ op : { "VertexBuffer" }, arrays : SUBSET Arrays,
                    numVertices : 0 .. MaxVertices, colorType : { "VEC3", "VEC4" } ] :
          \/ "positions" \notin input.arrays /\ input.numVertices # 0
          \/ "colors" \notin input.arrays /\ input.colorType # "VEC4" }

\* the layout, the vertex buffer of numVertices vertices, zeroed, and the
\* writes of every array
VertexBuffer ==
  /\ buildInput.op = "VertexBuffer"
  /\ buildOutput.op = "none"
  /\ LET descriptions == vertexDesc(ArraysOf(buildInput))
         vertexFormat == VertexFormat(descriptions)
         vertexData == [ byte \in 0 .. buildInput.numVertices * vertexFormat.size - 1 |->
                           [ u8 |-> 0 ] ]
     IN  buildOutput' =
           [ op |-> "VertexBuffer",
             vertexDesc |-> descriptions,
             numVertices |-> buildInput.numVertices,
             vertexData |-> WriteArrays(vertexData, buildInput, vertexFormat, 1) ]
  /\ UNCHANGED buildInput

InitBuild ==
  /\ NoParser
  /\ NoScene
  /\ NoCamera
  /\ NoWalk
  /\ NoMaterial
  /\ NoConfigurator
  /\ NoGltfViewer
  /\ NoExtensions
  /\ NoApplications
  /\ NoMesh
  /\ buildInput \in DecodeFacesInputs \cup CalculateNormalsInputs \cup MorphTargetsInputs
                     \cup VertexBufferInputs
  /\ buildOutput = [ op |-> "none" ]

NextBuild ==
  \/ /\ DecodeFaces
     /\ UNCHANGED notBuilderVars
  \/ /\ CalculateNormals
     /\ UNCHANGED notBuilderVars
  \/ /\ MorphTargets
     /\ UNCHANGED notBuilderVars
  \/ /\ VertexBuffer
     /\ UNCHANGED notBuilderVars

SpecBuild == InitBuild /\ [][NextBuild]_vars

(***************************************************************************)
(* C21: the index array of a decoded triangular mesh is 16-bit when the    *)
(* mesh has fewer than 65536 points and 32-bit otherwise, and holds every  *)
(* face index as the backend handed it out.                                *)
(***************************************************************************)
C21_IndexWidthByPointCount ==
  buildOutput.op = "DecodeFaces" =>
    /\ buildOutput.indices.bits = (IF buildInput.numPoints < 65536 THEN 16 ELSE 32)
    /\ buildOutput.indices.data = buildInput.faceValues

\* a mesh of 65536 points one face of which has the last point as a corner
C21_Witness ==
  /\ buildOutput.op = "DecodeFaces"
  /\ buildInput.numPoints = 65536
  /\ buildOutput.indices.bits = 32
  /\ \E k \in DOMAIN buildOutput.indices.data : buildOutput.indices.data[k] = 65535

(***************************************************************************)
(* C22: with positions, without normals and without indices, the normals   *)
(* are calculated over the index sequence 0, 1, ..., n - 1 of the n         *)
(* vertices, index i having the value i, and the primitive is drawn        *)
(* unindexed with n vertices.                                              *)
(***************************************************************************)
C22_NormalsOverIdentityIndices ==
  ( /\ buildOutput.op = "CalculateNormals"
    /\ buildInput.positions # Undefined
    /\ ~buildInput.normals
    /\ ~buildInput.indices ) =>
    /\ buildOutput.normals = "calculated"
    /\ buildOutput.over = "calculateIndices(numVertices)"
    /\ buildOutput.numVertices = buildInput.positions[1]
    /\ calculateIndices(buildOutput.numVertices) = [ k \in 1 .. buildInput.positions[1] |-> k - 1 ]
    /\ ~buildOutput.indexed
    /\ buildOutput.count = Some(buildInput.positions[1])

(***************************************************************************)
(* C23: for every morph target and each of the channels position, normal   *)
(* and tangent, the delta array is the data of the accessor the target     *)
(* names for the channel when it names one, whatever its index, and is     *)
(* null when it names none.                                                *)
(***************************************************************************)
C23_MorphDeltaIffDeclared ==
  (buildOutput.op = "MorphTargets" /\ buildInput.targets # Undefined) =>
    /\ buildOutput.morph # Undefined
    /\ DOMAIN buildOutput.morph[1] = DOMAIN buildInput.targets[1]
    /\ \A k \in DOMAIN buildInput.targets[1] : \A channel \in MorphChannels :
         buildOutput.morph[1][k][channel] = buildInput.targets[1][k][channel]

(***************************************************************************)
(* C28: the layout of the vertex buffer lists, in the order position,      *)
(* normal, tangent, UV0, UV1, colour, joint indices, joint weights,        *)
(* exactly the semantics whose array the primitive has, the normal too     *)
(* when the normals are calculated from the positions; and the buffer      *)
(* holds, for every vertex and every listed semantic, every component of   *)
(* the vertex in the semantic's array at the semantic's place in the       *)
(* vertex.                                                                 *)
(***************************************************************************)
C28_VertexLayoutAndData ==
  buildOutput.op = "VertexBuffer" =>
    LET present == buildInput.arrays
                     \cup (IF "positions" \in buildInput.arrays THEN { "normals" } ELSE {})
        listed == buildOutput.vertexDesc
        data == buildOutput.vertexData
        Place(k) == { j \in DOMAIN AllDescriptions : AllDescriptions[j] = listed[k] }
        Sum4(k) == SizeOfFirst(listed, k - 1)
        VertexSize == SizeOfFirst(listed, Len(listed))
        Expected(description, i, c, lane) ==
          IF description.array = "colors"
            THEN [ u8 |-> IF c = 3 /\ buildInput.colorType = "VEC3"
                            THEN 255
                            ELSE NormalizedByte(ColorAt(
                                   (IF buildInput.colorType = "VEC4" THEN 4 ELSE 3) * i + c)) ]
          ELSE IF description.array = "joints"
            THEN [ u8 |-> JointAt(4 * i + c) ]
          ELSE [ f32 |-> FloatAt(description.array,
                                 description.array = "normals"
                                   /\ "normals" \notin buildInput.arrays,
                                 description.components * i + c),
                 lane |-> lane ]
    IN  /\ { listed[k].array : k \in DOMAIN listed } = present
        /\ \A k \in DOMAIN listed : Place(k) # {}
        /\ \A j, k \in DOMAIN listed :
             j < k => \A a \in Place(j), b \in Place(k) : a < b
        /\ DOMAIN data = 0 .. buildInput.numVertices * VertexSize - 1
        /\ \A k \in DOMAIN listed :
             \A i \in 0 .. buildInput.numVertices - 1 :
               \A c \in 0 .. listed[k].components - 1 :
                 IF listed[k].type = "TYPE_FLOAT32"
                   THEN \A lane \in 0 .. 3 :
                          data[i * VertexSize + Sum4(k) + 4 * c + lane]
                            = Expected(listed[k], i, c, lane)
                   ELSE data[i * VertexSize + Sum4(k) + c]
                          = Expected(listed[k], i, c, 0)

C28_Witness ==
  /\ buildOutput.op = "VertexBuffer"
  /\ buildInput.arrays = { "positions", "texCoord1", "colors", "weights" }
  /\ buildInput.numVertices = 2
  /\ Len(buildOutput.vertexDesc) = 5
  /\ buildOutput.vertexDesc[2].semantic = "NORMAL"
  /\ buildOutput.vertexDesc[5].semantic = "BLENDWEIGHT"
  /\ buildInput.colorType = "VEC3"
  /\ buildOutput.vertexData[87] = [ u8 |-> 255 ]
  /\ buildOutput.vertexData[100].f32.index = 7

(***************************************************************************)
(* The Configurator with subscribers that call it back.  setValue is       *)
(* taken one subscriber at a time: SetValueEnter is the call up to the     *)
(* start of callbacks.forEach, and each CallbackStep is one index of the   *)
(* forEach, in which the subscriber invoked may read the field and may     *)
(* unregister a subscriber of the field.  `last` and `pre` are those of    *)
(* the setValue, and `calls` grows with every subscriber invoked.          *)
(***************************************************************************)

\* a setValue that starts notifying without having stored the value
StoreSlot_NotYet(fieldId, valueId) == _configuration

\* this._configuration[fieldId] = valueId
StoreSlot(fieldId, valueId) == [ _configuration EXCEPT ![fieldId + 1] = valueId ]

\* setValue(fieldId, valueId) up to the first subscriber: the two checks,
\* the store, and the start of callbacks.forEach, whose length is read once
SetValueEnter(fieldId, valueId) ==
  LET call == [ op |-> "setValue", fieldId |-> fieldId, valueId |-> valueId, error |-> "none" ]
  IN  /\ ~walk.active
      /\ IF At(_configuration, fieldId) = Undefined
         THEN /\ Throw(call, "Invalid field")
              /\ UNCHANGED walkVars
         ELSE IF FieldManager_getValue(manager, fieldId, valueId) = Undefined
         THEN /\ Throw(call, "Invalid value")
              /\ UNCHANGED walkVars
         ELSE /\ _configuration' = StoreSlot(fieldId, valueId)
              /\ calls' = << >>
              /\ pre' = Snapshot
              /\ last' = call
              /\ walk' = [ active |-> Len(_callbacks[fieldId + 1]) > 0,
                           fieldId |-> fieldId, valueId |-> valueId, k |-> 0,
                           len |-> Len(_callbacks[fieldId + 1]) ]
              /\ seen' = << >>
              /\ unsubscribed' = {}
              /\ UNCHANGED << manager, _callbacks >>

\* what a subscriber does with the Configurator inside its callback, after
\* reading the field: nothing, or offVariantChange of a subscriber of the
\* field
Reactions == { Undefined } \cup { Some(callback) : callback \in Callbacks }

\* one index of callbacks.forEach(callback => callback(valueId)): an index
\* the array no longer has is passed over; else the subscriber at the
\* index is invoked
CallbackStep(reaction) ==
  /\ walk.active
  /\ walk' = [ walk EXCEPT !.k = @ + 1, !.active = walk.k + 1 < walk.len ]
  /\ LET callbacks == _callbacks[walk.fieldId + 1]
     IN  IF walk.k + 1 \notin DOMAIN callbacks
         THEN /\ reaction = Undefined
              /\ UNCHANGED << _callbacks, calls, seen, unsubscribed >>
         ELSE /\ calls' = Append(calls, Invoke(walk.fieldId, callbacks[walk.k + 1], walk.valueId))
              /\ seen' = Append(seen, getValue(walk.fieldId))
              /\ IF reaction = Undefined \/ IndexOf(callbacks, reaction[1]) = -1
                 THEN UNCHANGED << _callbacks, unsubscribed >>
                 ELSE /\ _callbacks' =
                           [ _callbacks EXCEPT
                               ![walk.fieldId + 1] =
                                  Splice1(callbacks, IndexOf(callbacks, reaction[1])) ]
                      /\ unsubscribed' = unsubscribed \cup { reaction[1] }
  /\ UNCHANGED << manager, _configuration, last, pre >>

\* a subscription made before the first setValue
Subscribe(field, callback) ==
  /\ last.op \in { "constructor", "onValueChange" }
  /\ onValueChange(field, callback)
  /\ UNCHANGED walkVars

InitReentrant ==
  /\ NoParser
  /\ NoScene
  /\ NoCamera
  /\ \E m \in Managers : Constructor(m)
  /\ NoWalk
  /\ NoGltfViewer
  /\ NoExtensions
  /\ NoApplications
  /\ NoMesh
  /\ NoBuilder
  /\ NoMaterial

NextReentrant ==
  \/ /\ \E f \in FieldIdArgs, v \in ValueIdArgs : SetValueEnter(f, v)
     /\ UNCHANGED notConfiguratorNorWalkVars
  \/ /\ \E reaction \in Reactions : CallbackStep(reaction)
     /\ UNCHANGED notConfiguratorNorWalkVars
  \/ /\ \E f \in FieldIdArgs, cb \in Callbacks : Subscribe(f, cb)
     /\ UNCHANGED notConfiguratorNorWalkVars

SpecReentrant == InitReentrant /\ [][NextReentrant]_vars

\* the number of elements of a sequence that satisfy a test on the callback
TimesIn(callbacks, callback) ==
  Cardinality({ i \in DOMAIN callbacks : callbacks[i] = callback })

(***************************************************************************)
(* C29: when a setValue has returned, every subscriber that was registered *)
(* once for the field when setValue was called, and that no callback of    *)
(* the call unregistered, has been invoked exactly once by the call,       *)
(* whatever the callbacks of the call unregistered.                        *)
(***************************************************************************)
C29_OthersStillInvokedOnce ==
  (last.op = "setValue" /\ last.error = "none" /\ ~walk.active) =>
    \A callback \in Callbacks :
      ( /\ TimesIn(pre.callbacks[last.fieldId + 1], callback) = 1
        /\ callback \notin unsubscribed ) =>
        Cardinality({ i \in DOMAIN calls : calls[i].callback = callback }) = 1

(***************************************************************************)
(* C30: every subscriber invoked by setValue(f, v) that reads the field    *)
(* inside its callback reads v: the slot is stored before the first        *)
(* subscriber is invoked.                                                  *)
(***************************************************************************)
C30_SlotStoredBeforeCallbacks ==
  (last.op = "setValue" /\ last.error = "none") =>
    /\ Len(seen) = Len(calls)
    /\ \A i \in DOMAIN seen : seen[i] = Some(last.valueId)

C30_Witness ==
  /\ last.op = "setValue"
  /\ last.error = "none"
  /\ ~walk.active
  /\ Len(seen) = 2
  /\ pre.configuration[last.fieldId + 1] # last.valueId
  /\ seen[1] = Some(last.valueId)
  /\ seen[2] = Some(last.valueId)

(***************************************************************************)
(* The material translator: translateMaterial of translateMaterial.ts.     *)
(* Numbers that may have a fractional part (colour components, opacity,    *)
(* factors, alpha cutoff, tiling and offset) are held in hundredths: 100   *)
(* stands for 1.0.  The channels of the material are held per channel:     *)
(* maps.diffuse.uv stands for material.diffuseMapUv, and so on.            *)
(***************************************************************************)

\* 0.5, the alpha cutoff of a MASK material that declares none
DefaultAlphaCutoff == 50

\* Math.pow(channel, 1 / 2.2), linear space to sRGB space, to the nearest
\* hundredth
ToSRGB(channel) ==
  CASE channel = 0 -> 0
    [] channel = 50 -> 73
    [] channel = 100 -> 100

\* textures[index]: the texture the parser created for the document's
\* texture of that index
textures(index) == [ texture |-> index ]

\* a channel of a new pc.StandardMaterial: no map, UV set 0, tiling (1, 1),
\* offset (0, 0)
DefaultChannel(channel) ==
  [ map |-> Undefined, channel |-> channel, uv |-> 0,
    tiling |-> << 100, 100 >>, offset |-> << 0, 0 >> ]

\* new pc.StandardMaterial() followed by the assignments translateMaterial
\* makes for every material
StandardMaterial ==
  [ name |-> "Untitled",
    occludeSpecular |-> 1,
    diffuseTint |-> TRUE, diffuseVertexColor |-> TRUE,
    specularTint |-> TRUE, specularVertexColor |-> TRUE,
    useLighting |-> TRUE,
    diffuse |-> << 100, 100, 100 >>, opacity |-> 100,
    specular |-> << 0, 0, 0 >>, shininess |-> 25,
    useMetalness |-> FALSE, metalness |-> 100,
    emissive |-> << 0, 0, 0 >>, emissiveTint |-> FALSE,
    bumpiness |-> 100,
    maps |-> [ diffuse |-> DefaultChannel("rgb"),
               opacity |-> DefaultChannel("a"),
               specular |-> DefaultChannel("rgb"),
               gloss |-> DefaultChannel("g"),
               metalness |-> DefaultChannel("g"),
               normal |-> DefaultChannel("rgb"),
               ao |-> DefaultChannel("g"),
               emissive |-> DefaultChannel("rgb") ],
    chunks |-> {},
    blendType |-> "BLEND_NONE", alphaTest |-> 0,
    twoSidedLighting |-> FALSE, cull |-> "CULLFACE_BACK",
    updated |-> FALSE ]

\* the UV set, tiling and offset a texture reference gives to a channel:
\* its texCoord when it has one, the scale and the offset of its
\* KHR_texture_transform extension when it has them
TextureTransform(info, channel) ==
  [ channel EXCEPT
      !.uv = IF info.texCoord # Undefined THEN info.texCoord[1] ELSE @,
      !.tiling = IF info.transform # Undefined /\ info.transform[1].scale # Undefined
                   THEN info.transform[1].scale[1] ELSE @,
      !.offset = IF info.transform # Undefined /\ info.transform[1].offset # Undefined
                   THEN info.transform[1].offset[1] ELSE @ ]

\* a channel that takes its map from a texture reference without its
\* transform
MapOnly(info, letters, channel) ==
  [ channel EXCEPT !.map = Some(textures(info.index)), !.channel = letters ]

\* a channel that takes its map and its transform from a texture reference
MapOf(info, letters, channel) ==
  TextureTransform(info, MapOnly(info, letters, channel))

\* the translation of the first three components of a colour factor
Colour(factor) == << ToSRGB(factor[1]), ToSRGB(factor[2]), ToSRGB(factor[3]) >>

\* the branch of data.extensions.KHR_materials_pbrSpecularGlossiness
specularGlossiness(specData, m) ==
  LET diffuseTexture == specData.diffuseTexture
      specularGlossinessTexture == specData.specularGlossinessTexture
      m1 == [ m EXCEPT
                !.diffuse = IF specData.diffuseFactor # Undefined
                              THEN Colour(specData.diffuseFactor[1])
                              ELSE << 100, 100, 100 >>,
                !.opacity = IF specData.diffuseFactor # Undefined
                              THEN specData.diffuseFactor[1][4]
                              ELSE 100 ]
      m2 == IF diffuseTexture # Undefined
              THEN [ m1 EXCEPT
                       !.maps.diffuse = MapOf(diffuseTexture[1], "rgb", @),
                       !.maps.opacity = MapOf(diffuseTexture[1], "a", @) ]
              ELSE m1
      m3 == [ m2 EXCEPT
                !.useMetalness = FALSE,
                !.specular = IF specData.specularFactor # Undefined
                               THEN Colour(specData.specularFactor[1])
                               ELSE << 100, 100, 100 >>,
                !.shininess = IF specData.glossinessFactor # Undefined
                                THEN (100 * specData.glossinessFactor[1]) \div 100
                                ELSE 100 ]
      m4 == IF specularGlossinessTexture # Undefined
              THEN [ m3 EXCEPT
                       !.maps.specular = MapOnly(specularGlossinessTexture[1], "rgb", @),
                       !.maps.gloss = MapOf(specularGlossinessTexture[1], "a", @),
                       !.maps.metalness = TextureTransform(specularGlossinessTexture[1], @) ]
              ELSE m3
  IN  [ m4 EXCEPT !.chunks = @ \cup { "specularPS" } ]

\* the branch of data.pbrMetallicRoughness
pbrMetallicRoughness(pbrData, m) ==
  LET baseColorTexture == pbrData.baseColorTexture
      metallicRoughnessTexture == pbrData.metallicRoughnessTexture
      m1 == [ m EXCEPT
                !.diffuse = IF pbrData.baseColorFactor # Undefined
                              THEN Colour(pbrData.baseColorFactor[1])
                              ELSE << 100, 100, 100 >>,
                !.opacity = IF pbrData.baseColorFactor # Undefined
                              THEN pbrData.baseColorFactor[1][4]
                              ELSE 100 ]
      m2 == IF baseColorTexture # Undefined
              THEN [ m1 EXCEPT
                       !.maps.diffuse = MapOf(baseColorTexture[1], "rgb", @),
                       !.maps.opacity = MapOf(baseColorTexture[1], "a", @) ]
              ELSE m1
      m3 == [ m2 EXCEPT
                !.useMetalness = TRUE,
                !.metalness = IF pbrData.metallicFactor # Undefined
                                THEN pbrData.metallicFactor[1]
                                ELSE 100,
                !.shininess = IF pbrData.roughnessFactor # Undefined
                                THEN (100 * pbrData.roughnessFactor[1]) \div 100
                                ELSE 100 ]
      m4 == IF metallicRoughnessTexture # Undefined
              THEN [ m3 EXCEPT
                       !.maps.metalness = MapOf(metallicRoughnessTexture[1], "b", @),
                       !.maps.gloss = MapOf(metallicRoughnessTexture[1], "g", @) ]
              ELSE m3
  IN  [ m4 EXCEPT !.chunks = @ \cup { "glossPS" } ]

\* the choice of the workflow: the specular-glossiness extension when the
\* material has it, else the metallic-roughness block when it has one, else
\* nothing
workflow(data, m) ==
  IF data.KHR_materials_pbrSpecularGlossiness # Undefined
    THEN specularGlossiness(data.KHR_materials_pbrSpecularGlossiness[1], m)
    ELSE IF data.pbrMetallicRoughness # Undefined
           THEN pbrMetallicRoughness(data.pbrMetallicRoughness[1], m)
           ELSE m

\* the normal, occlusion and emissive parts of the description
surface(data, m) ==
  LET m1 == IF data.normalTexture # Undefined
              THEN [ m EXCEPT
                       !.maps.normal =
                          TextureTransform(data.normalTexture[1],
                            [ @ EXCEPT !.map = Some(textures(data.normalTexture[1].index)) ]),
                       !.bumpiness = IF Truthy(data.normalTexture[1].scale)
                                       THEN data.normalTexture[1].scale[1] ELSE @ ]
              ELSE m
      m2 == IF data.occlusionTexture # Undefined
              THEN [ m1 EXCEPT !.maps.ao = MapOf(data.occlusionTexture[1], "r", @) ]
              ELSE m1
      m3 == IF data.emissiveFactor # Undefined
              THEN [ m2 EXCEPT !.emissive = Colour(data.emissiveFactor[1]),
                               !.emissiveTint = TRUE ]
              ELSE [ m2 EXCEPT !.emissive = << 0, 0, 0 >>, !.emissiveTint = FALSE ]
  IN  IF data.emissiveTexture # Undefined
        THEN [ m3 EXCEPT
                 !.maps.emissive =
                    TextureTransform(data.emissiveTexture[1],
                      [ @ EXCEPT !.map = Some(textures(data.emissiveTexture[1].index)) ]) ]
        ELSE m3

\* a switch on the alpha mode that takes a cutoff of 0 for no cutoff
alphaMode_TruthyCutoff(data, m) ==
  CASE data.alphaMode = Some("MASK") ->
         [ m EXCEPT !.blendType = "BLEND_NONE",
                    !.alphaTest = IF Truthy(data.alphaCutoff)
                                    THEN data.alphaCutoff[1]
                                    ELSE DefaultAlphaCutoff ]
    [] data.alphaMode = Some("BLEND") -> [ m EXCEPT !.blendType = "BLEND_NORMAL" ]
    [] OTHER -> [ m EXCEPT !.blendType = "BLEND_NONE" ]

\* switch (data.alphaMode)
alphaMode(data, m) ==
  CASE data.alphaMode = Some("MASK") ->
         [ m EXCEPT !.blendType = "BLEND_NONE",
                    !.alphaTest = IF data.alphaCutoff # Undefined
                                    THEN data.alphaCutoff[1]
                                    ELSE DefaultAlphaCutoff ]
    [] data.alphaMode = Some("BLEND") -> [ m EXCEPT !.blendType = "BLEND_NORMAL" ]
    [] OTHER -> [ m EXCEPT !.blendType = "BLEND_NONE" ]

\* a double-sidedness that lights both sides and still culls the back faces
doubleSided_StillCulled(data, m) ==
  IF data.doubleSided = Some(TRUE)
    THEN [ m EXCEPT !.twoSidedLighting = TRUE, !.cull = "CULLFACE_BACK" ]
    ELSE [ m EXCEPT !.twoSidedLighting = FALSE, !.cull = "CULLFACE_BACK" ]

\* if (data.doubleSided) ... else ...
doubleSided(data, m) ==
  IF data.doubleSided = Some(TRUE)
    THEN [ m EXCEPT !.twoSidedLighting = data.doubleSided[1],
                    !.cull = IF data.doubleSided[1] THEN "CULLFACE_NONE" ELSE "CULLFACE_BACK" ]
    ELSE [ m EXCEPT !.twoSidedLighting = FALSE, !.cull = "CULLFACE_BACK" ]

\* the name and the lighting of the material, set before the workflow
named(data, m) ==
  [ m EXCEPT !.name = IF data.name # Undefined THEN data.name[1] ELSE @,
             !.useLighting = data.KHR_materials_unlit # Undefined ]

\* translateMaterial(data, { textures })
translateMaterial(data) ==
  [ doubleSided(data,
      alphaMode(data,
        surface(data,
          workflow(data,
            named(data, StandardMaterial)))))
    EXCEPT !.updated = TRUE ]

(***************************************************************************)
(* The material descriptions translated.                                   *)
(***************************************************************************)

\* a colour factor: undefined or red, green, blue, alpha
Factors == { Undefined, Some(<< 100, 50, 0, 50 >>) }

\* the KHR_texture_transform extension of a texture reference
TextureTransforms ==
  [ scale : { Undefined, Some(<< 200, 300 >>) },
    offset : { Undefined, Some(<< 50, 25 >>) } ]

\* a reference to the texture of an index: undefined, or the index with or
\* without a UV set and with or without a texture transform
TextureInfos(index) ==
  { Undefined }
    \cup { Some([ index |-> index, texCoord |-> texCoord, transform |-> transform ]) :
             texCoord \in { Undefined, Some(1) },
             transform \in { Undefined } \cup { Some(t) : t \in TextureTransforms } }

\* the specular-glossiness extensions
SpecDatas ==
  [ diffuseFactor : Factors,
    diffuseTexture : TextureInfos(0),
    specularFactor : Factors,
    glossinessFactor : { Undefined, Some(50) },
    specularGlossinessTexture : TextureInfos(1) ]

\* the metallic-roughness blocks
PbrDatas ==
  [ baseColorFactor : Factors,
    baseColorTexture : TextureInfos(0),
    metallicFactor : { Undefined, Some(0), Some(50) },
    roughnessFactor : { Undefined, Some(50) },
    metallicRoughnessTexture : TextureInfos(1) ]

\* a block with no field
EmptySpecData ==
  [ diffuseFactor |-> Undefined, diffuseTexture |-> Undefined,
    specularFactor |-> Undefined, glossinessFactor |-> Undefined,
    specularGlossinessTexture |-> Undefined ]

EmptyPbrData ==
  [ baseColorFactor |-> Undefined, baseColorTexture |-> Undefined,
    metallicFactor |-> Undefined, roughnessFactor |-> Undefined,
    metallicRoughnessTexture |-> Undefined ]

\* a metallic-roughness block with every field
FullPbrData ==
  [ baseColorFactor |-> Some(<< 100, 50, 0, 50 >>),
    baseColorTexture |-> Some([ index |-> 0, texCoord |-> Some(1),
                                transform |-> Some([ scale |-> Some(<< 200, 300 >>),
                                                     offset |-> Some(<< 50, 25 >>) ]) ]),
    metallicFactor |-> Some(50), roughnessFactor |-> Some(50),
    metallicRoughnessTexture |-> Some([ index |-> 1, texCoord |-> Some(1),
                                        transform |-> Some([ scale |-> Some(<< 200, 300 >>),
                                                             offset |-> Some(<< 50, 25 >>) ]) ]) ]

\* the two blocks of a description: every extension with no block, an
\* empty block or a full one; every block without the extension; neither
Workflows ==
  { [ KHR_materials_pbrSpecularGlossiness |-> Undefined, pbrMetallicRoughness |-> Undefined ] }
    \cup { [ KHR_materials_pbrSpecularGlossiness |-> Undefined,
             pbrMetallicRoughness |-> Some(pbrData) ] : pbrData \in PbrDatas }
    \cup { [ KHR_materials_pbrSpecularGlossiness |-> Some(specData),
             pbrMetallicRoughness |-> pbr ] :
             specData \in SpecDatas,
             pbr \in { Undefined, Some(EmptyPbrData), Some(FullPbrData) } }

\* the blocks by presence alone
PlainWorkflows ==
  [ KHR_materials_pbrSpecularGlossiness : { Undefined, Some(EmptySpecData) },
    pbrMetallicRoughness : { Undefined, Some(EmptyPbrData) } ]

\* the rest of a description
Surfaces ==
  [ name : { Undefined, Some("name") },
    KHR_materials_unlit : { Undefined, Some("{}") },
    normalTexture :
      { Undefined,
        Some([ index |-> 2, texCoord |-> Some(1),
               transform |-> Some([ scale |-> Some(<< 200, 300 >>), offset |-> Undefined ]),
               scale |-> Some(200) ]) },
    occlusionTexture :
      { Undefined,
        Some([ index |-> 3, texCoord |-> Undefined,
               transform |-> Some([ scale |-> Undefined, offset |-> Some(<< 50, 25 >>) ]) ]) },
    emissiveFactor : { Undefined, Some(<< 100, 50, 0 >>) },
    emissiveTexture :
      { Undefined, Some([ index |-> 4, texCoord |-> Some(1), transform |-> Undefined ]) },
    alphaMode : { Undefined, Some("OPAQUE"), Some("MASK"), Some("BLEND"), Some("CUSTOM") },
    alphaCutoff : { Undefined, Some(0), Some(25) },
    doubleSided : { Undefined, Some(FALSE), Some(TRUE) } ]

\* a description with nothing but its two blocks
PlainSurface ==
  [ name |-> Undefined, KHR_materials_unlit |-> Undefined,
    normalTexture |-> Undefined, occlusionTexture |-> Undefined,
    emissiveFactor |-> Undefined, emissiveTexture |-> Undefined,
    alphaMode |-> Undefined, alphaCutoff |-> Undefined, doubleSided |-> Undefined ]

\* the description made of two blocks and of the rest
Material(blocks, rest) ==
  [ field \in DOMAIN blocks \cup DOMAIN rest |->
      IF field \in DOMAIN blocks THEN blocks[field] ELSE rest[field] ]

\* the descriptions translated: every pair of blocks with nothing else, and
\* everything else with the blocks by presence alone
MaterialInputs ==
  { Material(blocks, PlainSurface) : blocks \in Workflows }
    \cup { Material(blocks, rest) : blocks \in PlainWorkflows, rest \in Surfaces }

\* a call of translateMaterial
TranslateMaterial ==
  /\ material = Undefined
  /\ material' = Some(translateMaterial(materialData))
  /\ UNCHANGED materialData

InitMaterial ==
  /\ NoParser
  /\ NoScene
  /\ NoCamera
  /\ NoWalk
  /\ NoConfigurator
  /\ NoGltfViewer
  /\ NoExtensions
  /\ NoApplications
  /\ NoMesh
  /\ NoBuilder
  /\ materialData \in MaterialInputs
  /\ material = Undefined

NextMaterial ==
  /\ TranslateMaterial
  /\ UNCHANGED notMaterialVars

SpecMaterial == InitMaterial /\ [][NextMaterial]_vars

(***************************************************************************)
(* C24: a material with the specular-glossiness extension is translated    *)
(* by that workflow, metalness disabled, even when it has a                *)
(* metallic-roughness block too; without the extension a material with a   *)
(* metallic-roughness block is translated by it, metalness enabled; a      *)
(* material with neither has a white diffuse colour, opacity 1 and the     *)
(* defaults of the metalness workflow (metalness enabled, metalness 1,     *)
(* shininess 100).                                                         *)
(***************************************************************************)
C24_WorkflowSelection ==
  material # Undefined =>
    LET m == material[1]
        spec == materialData.KHR_materials_pbrSpecularGlossiness
        pbr == materialData.pbrMetallicRoughness
    IN  /\ spec # Undefined =>
             /\ ~m.useMetalness
             /\ m = translateMaterial([ materialData EXCEPT !.pbrMetallicRoughness = Undefined ])
             /\ "specularPS" \in m.chunks
        /\ (spec = Undefined /\ pbr # Undefined) =>
             /\ m.useMetalness
             /\ "glossPS" \in m.chunks
        /\ (spec = Undefined /\ pbr = Undefined) =>
             /\ m.diffuse = << 100, 100, 100 >>
             /\ m.opacity = 100
             /\ m.useMetalness
             /\ m.metalness = 100
             /\ m.shininess = 100

(***************************************************************************)
(* C25: a MASK material has the declared alpha cutoff, 0.5 when it         *)
(* declares none, and no blending; a BLEND material has blending; a        *)
(* material with any other alpha mode or with none has no blending.        *)
(***************************************************************************)
C25_AlphaMode ==
  material # Undefined =>
    LET m == material[1]
    IN  /\ materialData.alphaMode = Some("MASK") =>
             /\ m.blendType = "BLEND_NONE"
             /\ m.alphaTest = IF materialData.alphaCutoff = Undefined
                                THEN 50
                                ELSE materialData.alphaCutoff[1]
        /\ materialData.alphaMode = Some("BLEND") => m.blendType = "BLEND_NORMAL"
        /\ materialData.alphaMode \notin { Some("MASK"), Some("BLEND") } =>
             m.blendType = "BLEND_NONE"

C25_Witness ==
  /\ material # Undefined
  /\ materialData.alphaMode = Some("MASK")
  /\ materialData.alphaCutoff = Some(0)
  /\ material[1].alphaTest = 0
  /\ material[1].blendType = "BLEND_NONE"

(***************************************************************************)
(* C26: a translated material lights both sides exactly when it does not   *)
(* cull its back faces, and it does both exactly when the description is   *)
(* double-sided.                                                           *)
(***************************************************************************)
C26_TwoSidedIffNotCulled ==
  material # Undefined =>
    /\ material[1].twoSidedLighting = (material[1].cull = "CULLFACE_NONE")
    /\ material[1].cull \in { "CULLFACE_NONE", "CULLFACE_BACK" }
    /\ material[1].twoSidedLighting = (materialData.doubleSided = Some(TRUE))

C26_Witness ==
  /\ material # Undefined
  /\ materialData.doubleSided = Some(TRUE)
  /\ material[1].twoSidedLighting
  /\ material[1].cull = "CULLFACE_NONE"

(***************************************************************************)
(* C27: after the translation two channels that take their map from the    *)
(* same texture reference have the same UV set, tiling and offset: the     *)
(* opacity channel and the diffuse channel; in the specular-glossiness     *)
(* workflow the specular channel and the gloss channel; in the             *)
(* metallic-roughness workflow the metalness channel and the gloss         *)
(* channel.                                                                *)
(***************************************************************************)
C27_SharedTextureSameTransform ==
  material # Undefined =>
    LET maps == material[1].maps
        Same(a, b) ==
          (maps[a].map # Undefined /\ maps[a].map = maps[b].map) =>
            /\ maps[a].uv = maps[b].uv
            /\ maps[a].tiling = maps[b].tiling
            /\ maps[a].offset = maps[b].offset
    IN  /\ Same("diffuse", "opacity")
        /\ Same("specular", "gloss")
        /\ Same("metalness", "gloss")

(***************************************************************************)
(* C38: the translated material is lit exactly when the description does   *)
(* not carry the KHR_materials_unlit extension: unlit when it carries it,  *)
(* lit when it does not.                                                   *)
(***************************************************************************)
C38_LitIffNotUnlit ==
  material # Undefined =>
    material[1].useLighting = (materialData.KHR_materials_unlit = Undefined)

(***************************************************************************)
(* PlayCanvasViewer: the cameras of the active glTF scene.                 *)
(*                                                                         *)
(* A camera is a record: id (0 is the viewer's default camera, k the k-th  *)
(* camera of the glTF scene), orbit (isOrbitCameraEntity), enabled (the    *)
(* camera component's flag) and scriptEnabled (the orbit camera script's   *)
(* flag, FALSE and never written for a camera without the script).         *)
(***************************************************************************)
CameraFlags(id, orbit) ==
  { [ id |-> id, orbit |-> orbit, enabled |-> e, scriptEnabled |-> s ] :
      e \in BOOLEAN, s \in IF orbit THEN BOOLEAN ELSE { FALSE } }

\* the cameras a loader can hand over for a scene: any flags, ids in order
RECURSIVE LoadedCameras(_)
LoadedCameras(n) ==
  IF n = 0 THEN { << >> }
  ELSE UNION { { Append(rest, c) : c \in CameraFlags(n, TRUE) \cup CameraFlags(n, FALSE) } :
               rest \in LoadedCameras(n - 1) }

\* _createDefaultCamera: the orbit script is created with enabled: false;
\* the camera component's flag is set by convertToCameraEntity
_createDefaultCamera ==
  { c \in CameraFlags(0, TRUE) : ~c.scriptEnabled }

\* _setSceneHierarchy, lines 221-232: orbit cameras first, and the default
\* camera at the start of the list if the scene has no orbit camera
ListCameras(cameras, defaultCamera) ==
  LET sorted == SelectSeq(cameras, LAMBDA c : c.orbit) \o SelectSeq(cameras, LAMBDA c : ~c.orbit)
  IN  IF \E i \in DOMAIN sorted : sorted[i].orbit
        THEN sorted
        ELSE << defaultCamera >> \o sorted

\* the loop body of _initCameraPreviews before its await: the camera
\* component and the orbit script of the camera at an index are enabled
EnableForPreview(cameras, at) ==
  [ cameras EXCEPT ![at] = [ @ EXCEPT !.enabled = TRUE,
                                      !.scriptEnabled = IF cameras[at].orbit THEN TRUE ELSE @ ] ]

\* the loop body of _initCameraPreviews after its await: the orbit script
\* and the camera component are both set to prevEnabled
ResetAfterPreview(cameras, at, prevEnabled) ==
  [ cameras EXCEPT ![at] = [ @ EXCEPT !.enabled = prevEnabled,
                                      !.scriptEnabled = IF cameras[at].orbit THEN prevEnabled ELSE @ ] ]

\* setActiveCamera's forEach with the script left alone
EnableOnly_KeepScripts(cameras, cameraId) ==
  [ cameraIndex \in DOMAIN cameras |->
      [ cameras[cameraIndex] EXCEPT !.enabled = (cameraIndex - 1 = cameraId) ] ]

\* setActiveCamera's forEach: the camera at cameraId (counted from 0) is
\* enabled and every other one disabled, the orbit scripts with them
EnableOnly(cameras, cameraId) ==
  [ cameraIndex \in DOMAIN cameras |->
      LET enabled == (cameraIndex - 1 = cameraId)
      IN  [ cameras[cameraIndex] EXCEPT
              !.enabled = enabled,
              !.scriptEnabled = IF cameras[cameraIndex].orbit THEN enabled ELSE @ ] ]

\* cameras.find(camera => camera.camera.enabled): the id of the first one
FindEnabled(cameras) ==
  LET hits == { i \in DOMAIN cameras : cameras[i].enabled }
  IN  IF hits = { } THEN Undefined
      ELSE Some(cameras[CHOOSE i \in hits : \A j \in hits : i <= j].id)

CameraIds == -1 .. MaxCameras + 1

\* _initCameraPreviews is entered (the list has more than one camera): the
\* first camera is enabled and its frame awaited
InitCameraPreviews ==
  /\ NoParser
  /\ NoScene
  /\ previewing.state = "idle"
  /\ sceneCameras # Undefined
  /\ Len(sceneCameras[1]) > 1
  /\ previewing' = [ state |-> "frame", at |-> 1, prevEnabled |-> sceneCameras[1][1].enabled ]
  /\ sceneCameras' = Some(EnableForPreview(sceneCameras[1], 1))
  /\ cameraEvent' = [ op |-> "_initCameraPreviews", cameraId |-> 0,
                      cameras |-> sceneCameras, activeCamera |-> _activeCamera ]
  /\ UNCHANGED _activeCamera

\* the awaited frame is rendered and its picture taken: the camera is reset,
\* and the next camera is enabled or the call completes
PreviewFrame ==
  /\ previewing.state = "frame"
  /\ LET reset == ResetAfterPreview(sceneCameras[1], previewing.at, previewing.prevEnabled)
         next == previewing.at + 1
     IN  IF next <= Len(reset)
           THEN /\ previewing' = [ state |-> "frame", at |-> next, prevEnabled |-> reset[next].enabled ]
                /\ sceneCameras' = Some(EnableForPreview(reset, next))
           ELSE /\ previewing' = [ previewing EXCEPT !.state = "completed" ]
                /\ sceneCameras' = Some(reset)
  /\ UNCHANGED << _activeCamera, cameraEvent >>

\* canvas.toDataURL throws: the call rejects with the camera left enabled
PreviewThrows ==
  /\ previewing.state = "frame"
  /\ previewing' = [ previewing EXCEPT !.state = "rejected" ]
  /\ UNCHANGED << sceneCameras, _activeCamera, cameraEvent >>

\* setActiveCamera(cameraId)
SetActiveCamera(cameraId) ==
  /\ previewing.state # "frame"
  /\ cameraEvent' = [ op |-> "setActiveCamera", cameraId |-> cameraId,
                      cameras |-> sceneCameras, activeCamera |-> _activeCamera ]
  /\ IF sceneCameras = Undefined
       THEN UNCHANGED << sceneCameras, _activeCamera >>
       ELSE LET cameras == EnableOnly(sceneCameras[1], cameraId)
            IN  /\ sceneCameras' = Some(cameras)
                /\ _activeCamera' = FindEnabled(cameras)
  /\ UNCHANGED previewing

\* a viewer without an active scene, or with one whose cameras were listed
InitCamera ==
  /\ NoParser
  /\ NoScene
  /\ NoConfigurator /\ NoGltfViewer /\ NoExtensions /\ NoApplications
  /\ NoMesh /\ NoBuilder /\ NoMaterial /\ NoWalk
  /\ sceneCameras \in { Undefined } \cup
       { Some(ListCameras(cameras, defaultCamera)) :
           cameras \in UNION { LoadedCameras(n) : n \in 0 .. MaxCameras },
           defaultCamera \in _createDefaultCamera }
  /\ _activeCamera = Undefined
  /\ previewing = [ state |-> "idle", at |-> 0, prevEnabled |-> FALSE ]
  /\ cameraEvent = [ op |-> "none" ]

NextCamera ==
  \/ InitCameraPreviews /\ UNCHANGED notCameraVars
  \/ PreviewFrame /\ UNCHANGED notCameraVars
  \/ PreviewThrows /\ UNCHANGED notCameraVars
  \/ \E cameraId \in CameraIds : SetActiveCamera(cameraId) /\ UNCHANGED notCameraVars

SpecCamera == InitCamera /\ [][NextCamera]_vars

(***************************************************************************)
(* C35: once _initCameraPreviews has completed, every camera's camera      *)
(* component flag and every orbit camera's script flag are what they were  *)
(* before the call.                                                        *)
(***************************************************************************)
C35_PreviewsRestoreFlags ==
  (cameraEvent.op = "_initCameraPreviews" /\ previewing.state = "completed") =>
    sceneCameras = cameraEvent.cameras

(***************************************************************************)
(* C36: after setActiveCamera(cameraId) with an active glTF scene and a    *)
(* cameraId that is an index of its camera list, the camera at that index  *)
(* is the only one of the list whose camera component is enabled, each     *)
(* orbit camera's script is enabled exactly when its camera component is,  *)
(* and the viewer's active camera is that camera; without an active scene  *)
(* the call changes neither the list nor the active camera.                *)
(***************************************************************************)
C36_OnlyChosenCameraEnabled ==
  cameraEvent.op = "setActiveCamera" =>
    IF cameraEvent.cameras = Undefined
      THEN sceneCameras = Undefined /\ _activeCamera = cameraEvent.activeCamera
      ELSE LET before == cameraEvent.cameras[1]
               cameras == sceneCameras[1]
           IN  /\ DOMAIN cameras = DOMAIN before
               /\ \A i \in DOMAIN cameras :
                    /\ cameras[i].id = before[i].id /\ cameras[i].orbit = before[i].orbit
                    /\ cameras[i].orbit => cameras[i].scriptEnabled = cameras[i].enabled
               /\ (cameraEvent.cameraId + 1 \in DOMAIN cameras) =>
                    /\ \A i \in DOMAIN cameras : cameras[i].enabled <=> (i = cameraEvent.cameraId + 1)
                    /\ _activeCamera = Some(cameras[cameraEvent.cameraId + 1].id)

\* the second of three cameras is chosen while the first, an orbit camera,
\* was enabled with its script disabled
C36_Witness ==
  /\ cameraEvent.op = "setActiveCamera"
  /\ cameraEvent.cameraId = 1
  /\ cameraEvent.cameras # Undefined
  /\ Len(cameraEvent.cameras[1]) >= 2
  /\ cameraEvent.cameras[1][1].orbit
  /\ cameraEvent.cameras[1][1].enabled
  /\ ~cameraEvent.cameras[1][1].scriptEnabled
  /\ sceneCameras[1][2].enabled
  /\ ~sceneCameras[1][1].enabled
  /\ _activeCamera = Some(sceneCameras[1][2].id)

(***************************************************************************)
(* PlayCanvasViewer: loadScene and destroyScene.                           *)
(*                                                                         *)
(* A scene has the id of the load that delivered it.                       *)
(***************************************************************************)
SceneLoadIds == 1 .. MaxSceneLoads

\* what destroyScene leaves: [ loaded, scene, destroyed ]
destroyScene(scene, destroyed) ==
  [ loaded |-> FALSE,
    scene |-> Undefined,
    destroyed |-> IF scene # Undefined THEN destroyed \cup { scene[1] } ELSE destroyed ]

\* the load callback with _sceneLoaded set on success only
loadSceneCallback_SuccessOnly(error, delivered, scene, loaded) ==
  IF error
    THEN [ loaded |-> loaded, scene |-> scene, settled |-> "rejected" ]
    ELSE [ loaded |-> TRUE, scene |-> Some(delivered), settled |-> "resolved" ]

\* the callback given to app.scenes.loadScene: [ loaded, scene, settled ]
loadSceneCallback(error, delivered, scene, loaded) ==
  IF error
    THEN [ loaded |-> TRUE, scene |-> scene, settled |-> "rejected" ]
    ELSE [ loaded |-> TRUE, scene |-> Some(delivered), settled |-> "resolved" ]

SceneSnapshot ==
  [ scene |-> _scene, loaded |-> _sceneLoaded, backdrops |-> backdropsActive,
    loads |-> sceneLoads, destroyed |-> destroyedScenes ]

\* loadScene(url), the load getting the id d when one is issued
LoadScene(d) ==
  /\ sceneLoads[d] = "unused"
  /\ \A e \in SceneLoadIds : e < d => sceneLoads[e] # "unused"
  /\ sceneEvent' = [ op |-> "loadScene", load |-> d, error |-> FALSE, pre |-> SceneSnapshot ]
  /\ IF backdropsActive
       THEN UNCHANGED << _scene, _sceneLoaded, sceneLoads, destroyedScenes >>
       ELSE LET left == destroyScene(_scene, destroyedScenes)
            IN  /\ _scene' = left.scene
                /\ _sceneLoaded' = left.loaded
                /\ destroyedScenes' = left.destroyed
                /\ sceneLoads' = [ sceneLoads EXCEPT ![d] = "pending" ]
  /\ UNCHANGED backdropsActive

\* the engine calls the load callback back, with an error or with a scene
SceneLoadCallback(d, error) ==
  /\ sceneLoads[d] = "pending"
  /\ LET left == loadSceneCallback(error, d, _scene, _sceneLoaded)
     IN  /\ _scene' = left.scene
         /\ _sceneLoaded' = left.loaded
         /\ sceneLoads' = [ sceneLoads EXCEPT ![d] = left.settled ]
  /\ sceneEvent' = [ op |-> "callback", load |-> d, error |-> error, pre |-> SceneSnapshot ]
  /\ UNCHANGED << backdropsActive, destroyedScenes >>

\* destroyScene()
DestroySceneCall ==
  /\ LET left == destroyScene(_scene, destroyedScenes)
     IN  /\ _scene' = left.scene
         /\ _sceneLoaded' = left.loaded
         /\ destroyedScenes' = left.destroyed
  /\ sceneEvent' = [ op |-> "destroyScene", load |-> 0, error |-> FALSE, pre |-> SceneSnapshot ]
  /\ UNCHANGED << backdropsActive, sceneLoads >>

\* _initBackdrops sets this._backdrops and _destroyBackdrops clears it
BackdropsChange ==
  /\ backdropsActive' = ~backdropsActive
  /\ UNCHANGED << _scene, _sceneLoaded, sceneLoads, destroyedScenes, sceneEvent >>

InitScene ==
  /\ NoParser
  /\ NoConfigurator /\ NoGltfViewer /\ NoExtensions /\ NoApplications
  /\ NoMesh /\ NoBuilder /\ NoMaterial /\ NoWalk /\ NoCamera
  /\ _scene = Undefined
  /\ _sceneLoaded = FALSE
  /\ backdropsActive = FALSE
  /\ sceneLoads = [ d \in SceneLoadIds |-> "unused" ]
  /\ destroyedScenes = { }
  /\ sceneEvent = [ op |-> "none" ]

NextScene ==
  \/ \E d \in SceneLoadIds : LoadScene(d) /\ UNCHANGED notSceneVars
  \/ \E d \in SceneLoadIds, error \in BOOLEAN : SceneLoadCallback(d, error) /\ UNCHANGED notSceneVars
  \/ DestroySceneCall /\ UNCHANGED notSceneVars
  \/ BackdropsChange /\ UNCHANGED notSceneVars

SpecScene == InitScene /\ [][NextScene]_vars

(***************************************************************************)
(* C37: with backdrops active loadScene(url) resolves leaving the current  *)
(* scene undestroyed, no scene load issued and sceneLoaded as it was;      *)
(* without backdrops it destroys the current scene before it issues the    *)
(* load, and the load callback sets sceneLoaded to true when it fires,     *)
(* with an error as well as with a scene.                                  *)
(***************************************************************************)
C37_LoadSceneAndBackdrops ==
  /\ sceneEvent.op = "loadScene" =>
       IF sceneEvent.pre.backdrops
         THEN /\ _scene = sceneEvent.pre.scene
              /\ _sceneLoaded = sceneEvent.pre.loaded
              /\ sceneLoads = sceneEvent.pre.loads
              /\ destroyedScenes = sceneEvent.pre.destroyed
         ELSE /\ _scene = Undefined
              /\ ~_sceneLoaded
              /\ sceneEvent.pre.scene # Undefined => sceneEvent.pre.scene[1] \in destroyedScenes
              /\ sceneLoads[sceneEvent.load] = "pending"
              /\ \A d \in SceneLoadIds \ { sceneEvent.load } : sceneLoads[d] = sceneEvent.pre.loads[d]
  /\ sceneEvent.op = "callback" =>
       /\ _sceneLoaded
       /\ sceneLoads[sceneEvent.load] = IF sceneEvent.error THEN "rejected" ELSE "resolved"

\* a load issued over a loaded scene, which it destroyed, has failed and
\* sceneLoaded is true again
C37_Witness ==
  /\ sceneEvent.op = "callback"
  /\ sceneEvent.error
  /\ ~sceneEvent.pre.loaded
  /\ _sceneLoaded
  /\ _scene = Undefined
  /\ destroyedScenes # { }

(***************************************************************************)
(* The variant set parser and the interaction hotspot parser: what their   *)
(* callbacks record and what their queries return.                         *)
(*                                                                         *)
(* A level variant set is a record of its name and the texture index of    *)
(* its variant's thumbnail; a hotspot description a record of its image    *)
(* and animation indices.  Indices count from 0 as in the document.        *)
(***************************************************************************)
ParsedScenes == { "sceneA", "sceneB" }

HotspotNodes == { "sceneA", "nodeOfB", "detached" }

\* scene.findOne(node => node === n) finds n: the root and its descendants
Hierarchy(scene) ==
  IF scene = "sceneA" THEN { "sceneA", "nodeOfA" } ELSE { "sceneB", "nodeOfB" }

SetA == [ name |-> "A", thumbnail |-> Some(0) ]

SetB == [ name |-> "B", thumbnail |-> Undefined ]

\* rootData: without the extension block, or with its levelVariantSets
RootDatas == { Undefined, Some(<< SetA >>), Some(<< SetA, SetB >>) }

\* extensionData.levelVariantSets of a scene
SceneExtensionDatas == { << >>, << 0 >>, << 0, 1 >>, << 1, 0 >>, << 0, 2 >> }

\* gltf.extensions.EPIC_interaction_hotspots.interactions, if present
RootInteractions ==
  { Undefined,
    Some(<< [ image |-> 0, animation |-> 0 ] >>),
    Some(<< [ image |-> 1, animation |-> 0 ], [ image |-> 0, animation |-> 1 ] >>) }

\* a container: how many textures and animations it holds
Containers ==
  { [ textures |-> 0, animations |-> 2 ], [ textures |-> 1, animations |-> 1 ],
    [ textures |-> 2, animations |-> 1 ], [ textures |-> 2, animations |-> 2 ] }

\* hasNoUndefinedValues(items)
hasNoUndefinedValues(items) == \A i \in DOMAIN items : items[i] # Undefined

\* _scenePostParse recording the sets that resolve and skipping the others
_scenePostParse_SkipUnresolved(recorded, scene, extensionData, rootData) ==
  LET levelVariantSets ==
        [ i \in DOMAIN extensionData |->
            IF rootData = Undefined THEN Undefined ELSE At(rootData[1], extensionData[i]) ]
      resolved == SelectSeq(levelVariantSets, LAMBDA s : s # Undefined)
  IN  Append(recorded, [ scene |-> scene, data |-> [ i \in DOMAIN resolved |-> resolved[i][1] ] ])

\* _scenePostParse(scene, extensionData, rootData): the entries after it
_scenePostParse(recorded, scene, extensionData, rootData) ==
  LET levelVariantSets ==
        [ i \in DOMAIN extensionData |->
            IF rootData = Undefined THEN Undefined ELSE At(rootData[1], extensionData[i]) ]
  IN  IF ~hasNoUndefinedValues(levelVariantSets)
        THEN recorded
        ELSE Append(recorded, [ scene |-> scene,
                                data |-> [ i \in DOMAIN levelVariantSets |-> levelVariantSets[i][1] ] ])

\* InteractionHotspotExtensionParser._parse(node, extension, gltf)
_parse(recorded, node, interaction, interactions) ==
  IF interactions = Undefined
    THEN recorded
    ELSE LET hotspot == At(interactions[1], interaction)
         IN  IF hotspot = Undefined
               THEN recorded
               ELSE Append(recorded, [ node |-> node, data |-> hotspot[1] ])

\* the reduce of getVariantSetsForScene: the data of the entries, in order
RECURSIVE ConcatData(_)
ConcatData(entries) ==
  IF entries = << >> THEN << >>
  ELSE Head(entries).data \o ConcatData(Tail(entries))

\* the source of the texture at an index of the container, if it has one
TextureSource(container, index) ==
  IF index < container.textures THEN Some(index) ELSE Undefined

\* the map of getVariantSetsForScene: a level variant set built on a container
LevelVariantSetOf(set, container) ==
  [ name |-> set.name,
    thumbnail |-> IF set.thumbnail # Undefined
                    THEN TextureSource(container, set.thumbnail[1])
                    ELSE Undefined ]

\* getVariantSetsForScene without its filter on the scene
getVariantSetsForScene_AllScenes(recorded, scene, container) ==
  LET sets == ConcatData(recorded)
  IN  [ i \in DOMAIN sets |-> LevelVariantSetOf(sets[i], container) ]

\* getVariantSetsForScene(scene, container)
getVariantSetsForScene(recorded, scene, container) ==
  LET sets == ConcatData(SelectSeq(recorded, LAMBDA set : set.scene = scene))
  IN  [ i \in DOMAIN sets |-> LevelVariantSetOf(sets[i], container) ]

\* getHotspotsForScene(scene, container)
getHotspotsForScene(recorded, scene, container) ==
  LET kept == SelectSeq(recorded, LAMBDA hotspot :
                /\ hotspot.data.image < container.textures
                /\ hotspot.data.animation < container.animations
                /\ hotspot.node \in Hierarchy(scene))
  IN  [ i \in DOMAIN kept |->
          [ node |-> kept[i].node, imageSource |-> TextureSource(container, kept[i].data.image)[1] ] ]

\* the scene-stage callback of the variant set parser runs for a scene
ScenePostParse(scene, extensionData, rootData) ==
  /\ Len(_variantSets) + Len(parserHotspots) < MaxRecorded
  /\ _variantSets' = _scenePostParse(_variantSets, scene, extensionData, rootData)
  /\ parserEvent' = [ op |-> "_scenePostParse", scene |-> scene, extensionData |-> extensionData,
                      rootData |-> rootData, recorded |-> _variantSets ]
  /\ UNCHANGED parserHotspots

\* the node-stage callback of the hotspot parser runs for a node
HotspotParse(node, interaction, interactions) ==
  /\ Len(_variantSets) + Len(parserHotspots) < MaxRecorded
  /\ parserHotspots' = _parse(parserHotspots, node, interaction, interactions)
  /\ parserEvent' = [ op |-> "_parse", node |-> node, interaction |-> interaction,
                      interactions |-> interactions, recorded |-> parserHotspots ]
  /\ UNCHANGED _variantSets

\* getVariantSetsForScene is called
GetVariantSetsForScene(scene, container) ==
  /\ parserEvent' = [ op |-> "getVariantSetsForScene", scene |-> scene, container |-> container,
                      returned |-> getVariantSetsForScene(_variantSets, scene, container) ]
  /\ UNCHANGED << _variantSets, parserHotspots >>

\* getHotspotsForScene is called
GetHotspotsForScene(scene, container) ==
  /\ parserEvent' = [ op |-> "getHotspotsForScene", scene |-> scene, container |-> container,
                      returned |-> getHotspotsForScene(parserHotspots, scene, container) ]
  /\ UNCHANGED << _variantSets, parserHotspots >>

\* the two parsers as constructed
InitParser ==
  /\ NoConfigurator /\ NoGltfViewer /\ NoExtensions /\ NoApplications
  /\ NoMesh /\ NoBuilder /\ NoMaterial /\ NoWalk /\ NoCamera /\ NoScene
  /\ _variantSets = << >>
  /\ parserHotspots = << >>
  /\ parserEvent = [ op |-> "none" ]

NextParser ==
  \/ \E scene \in ParsedScenes, extensionData \in SceneExtensionDatas, rootData \in RootDatas :
       ScenePostParse(scene, extensionData, rootData) /\ UNCHANGED notParserVars
  \/ \E node \in HotspotNodes, interaction \in 0 .. 2, interactions \in RootInteractions :
       HotspotParse(node, interaction, interactions) /\ UNCHANGED notParserVars
  \/ \E scene \in ParsedScenes, container \in Containers :
       GetVariantSetsForScene(scene, container) /\ UNCHANGED notParserVars
  \/ \E scene \in ParsedScenes, container \in Containers :
       GetHotspotsForScene(scene, container) /\ UNCHANGED notParserVars

SpecParser == InitParser /\ [][NextParser]_vars

(***************************************************************************)
(* C39: the scene-stage callback of the variant set parser is all or       *)
(* nothing for its scene: when every index of the scene's payload is an    *)
(* index of the level variant sets of the document's root extension block  *)
(* it appends one entry for the scene, holding the sets at those indices   *)
(* in the order of the payload; when some index is not (or the block is    *)
(* missing) it records nothing and the entries are as they were.           *)
(***************************************************************************)
C39_AllOrNothingPerScene ==
  parserEvent.op = "_scenePostParse" =>
    LET indices == parserEvent.extensionData
        root == IF parserEvent.rootData = Undefined THEN << >> ELSE parserEvent.rootData[1]
    IN  IF \A i \in DOMAIN indices : indices[i] + 1 \in DOMAIN root
          THEN /\ Len(_variantSets) = Len(parserEvent.recorded) + 1
               /\ SubSeq(_variantSets, 1, Len(parserEvent.recorded)) = parserEvent.recorded
               /\ _variantSets[Len(_variantSets)].scene = parserEvent.scene
               /\ Len(_variantSets[Len(_variantSets)].data) = Len(indices)
               /\ \A i \in DOMAIN indices :
                    _variantSets[Len(_variantSets)].data[i] = root[indices[i] + 1]
          ELSE _variantSets = parserEvent.recorded

\* a payload naming the sets 1 and 0 was recorded in that order, and then
\* one naming the set 0 and a missing set 2 is not recorded at all
C39_Witness ==
  /\ parserEvent.op = "_scenePostParse"
  /\ parserEvent.recorded # << >>
  /\ parserEvent.recorded[1].data = << SetB, SetA >>
  /\ parserEvent.extensionData = << 0, 2 >>
  /\ parserEvent.rootData = Some(<< SetA, SetB >>)
  /\ _variantSets = parserEvent.recorded

(***************************************************************************)
(* C40: whatever the parsers have recorded, for whichever assets and       *)
(* scenes, getVariantSetsForScene(scene, container) returns the variant    *)
(* sets of the entries recorded for that very scene and no other, in the   *)
(* order they were recorded, and getHotspotsForScene(scene, container)     *)
(* returns only hotspots recorded for a node of that scene's hierarchy     *)
(* with an image index and an animation index that the container has.      *)
(***************************************************************************)
C40_QueriesFilterByScene ==
  /\ parserEvent.op = "getVariantSetsForScene" =>
       LET places == { p \in (DOMAIN _variantSets) \X (1 .. MaxRecorded + 2) :
                         /\ _variantSets[p[1]].scene = parserEvent.scene
                         /\ p[2] \in DOMAIN _variantSets[p[1]].data }
           Before(p, q) == p[1] < q[1] \/ (p[1] = q[1] /\ p[2] < q[2])
           Rank(p) == 1 + Cardinality({ q \in places : Before(q, p) })
       IN  /\ Len(parserEvent.returned) = Cardinality(places)
           /\ \A p \in places :
                parserEvent.returned[Rank(p)].name = _variantSets[p[1]].data[p[2]].name
  /\ parserEvent.op = "getHotspotsForScene" =>
       \A k \in DOMAIN parserEvent.returned :
         \E i \in DOMAIN parserHotspots :
           /\ parserHotspots[i].node = parserEvent.returned[k].node
           /\ parserHotspots[i].data.image = parserEvent.returned[k].imageSource
           /\ parserHotspots[i].node \in Hierarchy(parserEvent.scene)
           /\ parserHotspots[i].data.image < parserEvent.container.textures
           /\ parserHotspots[i].data.animation < parserEvent.container.animations

\* entries were recorded for two scenes and the sets of one are returned
C40_Witness ==
  /\ parserEvent.op = "getVariantSetsForScene"
  /\ \E i, j \in DOMAIN _variantSets :
       /\ _variantSets[i].scene = parserEvent.scene
       /\ _variantSets[j].scene # parserEvent.scene
       /\ _variantSets[j].data # << >>
  /\ parserEvent.returned # << >>

====
